---- MODULE Spec2Model ----
(***************************************************************************)
(* Model of the infinite-context memory engine: the SQLite-backed Store    *)
(* (src/db/store.js), the archive hooks (pre-compact, subagent-stop,       *)
(* session-end) and the transcript parser / extractor they drive.          *)
(*                                                                         *)
(* Scores are fixed-point: a score s in [0,1] is the integer s * SCALE.    *)
(* Time is counted in ticks, DayTicks ticks to a day.                      *)
(***************************************************************************)
EXTENDS Integers, Sequences, FiniteSets, Bags, TLC

(* ---------------------------- bounds ----------------------------------- *)
MaxId == 2          \* rows ever inserted (AUTOINCREMENT ids 1..MaxId)
MaxTime == 3        \* clock ticks explored
MaxAccess == 1      \* touches per row explored
MaxBatch == 2       \* longest insertMany / touchMemories argument list
MaxDecay == 2       \* decays of one idle row explored
MaxCkpt == 2        \* checkpoint rows explored
MaxLines == 2       \* longest transcript, in lines
MaxCount == 2       \* largest session counter explored
MaxRounds == 1      \* rounds of concurrent calls explored
MaxRuns == 2        \* hook processes started
MaxMems == 2        \* memories handed to restoreContext
MaxBudget == 30     \* largest token budget explored
MaxPrompts == 3     \* user-prompt-submit processes started
MaxClock == 3       \* minutes of the rate limiter's clock explored
MaxOps == 2         \* store operations of a hook body explored
MaxPerRestore == 3  \* largest maxMemoriesPerRestore explored
MaxMsgs == 3        \* longest message sequence grouped into turns
MaxBlockLines == 3  \* longest thinking block, in lines
MaxGroups == 2      \* most groups of one event in settings.json
maxMemoriesPerProject == 1   \* the retention cap (config), kept small

(* ------------------------- program constants --------------------------- *)
SCALE == 1000
DayTicks == 2
decayFactor == 950
decayIntervalDays == 1
pruneThreshold == 50
scoreFloor == 10
touchBump == 20

\* DEFAULTS: the fraction fields
DEFAULTS == [decayFactor |-> decayFactor, pruneThreshold |-> pruneThreshold,
             scoreFloor |-> scoreFloor]

Null == "NULL"      \* SQL NULL / JS null in a text column
NoId == 0            \* JS null where a row id is expected
NoTime == 0 - 1      \* SQL NULL in a timestamp column
NoRet == 0 - 1       \* an operation that returns nothing
Projects == {"pA", "pB"}
Sessions == {"s1", "s2"}
Paths == {"t1", "t2"}
Hashes == {"h1", "h2"}
HashInputs == Hashes \cup {Null, ""}
ScoreInputs == {52, 350}

Min(a, b) == IF a < b THEN a ELSE b
Max(a, b) == IF a > b THEN a ELSE b

Procs == {"p1", "p2"}
NoProc == "none"

VARIABLES
    conn,          \* per process: its connection and the call it is inside
    writer,        \* the process holding SQLite's write lock, or NoProc
    commits,       \* number of commits so far (the WAL's version)
    store0,        \* the committed store when the current round of calls began
    rounds,        \* rounds of concurrent calls begun so far

    transcript,    \* the transcript file: whether it exists, and its lines
    run,           \* the archive hook process that is running, if any
    runs,          \* hook processes started so far
    unparsed,      \* positions whose current message no run of key s1 has parsed
    crash,         \* the last run that died after its insert, before its checkpoint

    proc,          \* a hook process from start to exit: stdin, the readStdin
                   \* promise, the store handle, stdout, the exit code
    promptState,   \* prompt-state.json: per state key the time of the last recall
    prompts,       \* the user-prompt-submit processes, and the clock they read
    settings,      \* ~/.claude/settings.json (its hooks), and the directory the
                   \* package is installed in
    config,        \* _config: the configuration loadConfig() returned

    memories,      \* table memories: set of rows
    fts,           \* memories_fts: bag of the rowids it holds an entry for
    nextId,        \* AUTOINCREMENT sequence of memories
    checkpoints,   \* table checkpoints: sequence of rows, index = id
    sessions,      \* table sessions: set of rows
    now,           \* wall clock, in ticks
    last           \* the last store operation and what it returned

storeVars == <<memories, fts, nextId, checkpoints, sessions, now, last>>
concVars == <<conn, writer, commits, store0, rounds>>
hookVars == <<transcript, run, runs, unparsed, crash>>
procVars == <<proc, promptState, prompts, settings, config>>
nonStore == <<concVars, hookVars, procVars>>
vars == <<storeVars, concVars, hookVars, procVars>>

(* ------------------------------ Store ---------------------------------- *)

\* memories_fts is an external-content index on memories(id); no statement
\* of the store writes content or keywords after the insert, so an entry is
\* told by its rowid.  RowIds: the ids of a table state.
RowIds(mem) == {r.id : r \in mem}

\* the triggers with memories_ad left out
Triggers_noDelete(f, old, new) ==
    LET updated == {r.id : r \in old \ new} \cap RowIds(new)
    IN (f (-) SetToBag(updated)) (+) SetToBag((RowIds(new) \ RowIds(old)) \cup updated)

\* what the triggers memories_ai / memories_ad / memories_au do to the index
\* when a statement takes the table from old to new: 'delete' of the entry
\* of every deleted or updated row, an entry for every inserted or updated row
Triggers(f, old, new) ==
    LET deleted == RowIds(old) \ RowIds(new)
        inserted == RowIds(new) \ RowIds(old)
        updated == {r.id : r \in old \ new} \cap RowIds(new)
    IN (f (-) SetToBag(deleted \cup updated)) (+) SetToBag(inserted \cup updated)

\* hashExists: SELECT 1 FROM memories WHERE source_hash = ? LIMIT 1
hashExists(mem, h) == \E r \in mem : r.hash = h

\* JS truthiness of the sourceHash argument: null and "" are falsy
Truthy(h) == h # Null /\ h # ""

\* the row INSERT INTO memories writes: defaults access_count 0,
\* last_accessed now; sourceHash || null
NewRow(id, m, t) ==
    [id |-> id, project |-> m.project, hash |-> IF Truthy(m.hash) THEN m.hash ELSE Null,
     score |-> m.score, ca |-> t, la |-> t, ac |-> 0, dk |-> 0]

\* insertMemory as INSERT OR REPLACE on the source hash
insertMemory_replace(db, m, t) ==
    [mem |-> {r \in db.mem : ~(Truthy(m.hash) /\ r.hash = m.hash)}
                 \cup {NewRow(db.nid, m, t)},
     nid |-> db.nid + 1, ret |-> db.nid]

insertMemory_nocheck(db, m, t) ==
    [mem |-> db.mem \cup {NewRow(db.nid, m, t)}, nid |-> db.nid + 1, ret |-> db.nid]

\* Store.insertMemory on db = [mem, nid]; ret is the new id or NoId
insertMemory(db, m, t) ==
    IF Truthy(m.hash) /\ hashExists(db.mem, m.hash)
    THEN [mem |-> db.mem, nid |-> db.nid, ret |-> NoId]
    ELSE [mem |-> db.mem \cup {NewRow(db.nid, m, t)}, nid |-> db.nid + 1, ret |-> db.nid]

\* Store.insertMany: the loop of insertMemory calls, counting the non-null ids
RECURSIVE insertMany(_, _, _)
insertMany(db, items, t) ==
    IF items = <<>> THEN [mem |-> db.mem, nid |-> db.nid, ret |-> 0]
    ELSE LET one == insertMemory(db, Head(items), t)
             rest == insertMany([mem |-> one.mem, nid |-> one.nid], Tail(items), t)
         IN [mem |-> rest.mem, nid |-> rest.nid,
             ret |-> rest.ret + (IF one.ret # NoId THEN 1 ELSE 0)]

\* touchMemory with a flat bump and no cap
touchMemory_additive(mem, id, t) ==
    {IF r.id = id
     THEN [r EXCEPT !.ac = @ + 1, !.la = t, !.score = @ + touchBump, !.dk = 0]
     ELSE r : r \in mem}

\* touchMemory: UPDATE ... WHERE id = ?
touchMemory(mem, id, t) ==
    {IF r.id = id
     THEN [r EXCEPT !.ac = @ + 1, !.la = t,
                    !.score = Min(SCALE, @ + (touchBump * (SCALE - @)) \div SCALE),
                    !.dk = 0]
     ELSE r : r \in mem}

\* Store.touchMemories: one touchMemory per list element, in order
RECURSIVE touchMemories(_, _, _)
touchMemories(mem, ids, t) ==
    IF ids = <<>> THEN mem
    ELSE touchMemories(touchMemory(mem, Head(ids), t), Tail(ids), t)

\* days = Math.max(1, Math.round(Number(cfg.decayIntervalDays) || 1))
decayDays == Max(1, decayIntervalDays)
IntervalTicks == decayDays * DayTicks

\* decayScores: UPDATE memories SET score = MAX(floor, score * factor)
\*              WHERE last_accessed < datetime('now', -days)
\* dk counts the decays a row took since it was last accessed (history).
decayScores(mem, t) ==
    {IF r.la < t - IntervalTicks
     THEN [r EXCEPT !.score = Max(scoreFloor, (@ * decayFactor) \div SCALE), !.dk = @ + 1]
     ELSE r : r \in mem}

\* pruneByScore: DELETE FROM memories WHERE score < ?
pruneByScore(mem, threshold) == {r \in mem : ~(r.score < threshold)}

\* Store.decayAndPrune as run through one handle with nothing in between
decayAndPrune(mem, t) == pruneByScore(decayScores(mem, t), pruneThreshold)

\* pruneByAge: DELETE FROM memories WHERE created_at < datetime('now', -d days)
\*             AND access_count = 0
pruneByAge(mem, d, t) == {r \in mem : ~(r.ca < t - d * DayTicks /\ r.ac = 0)}

\* Store.pruneOld(days): const d = Math.max(1, Math.round(Number(days) || 30))
pruneOld(mem, days, t) ==
    LET d == IF days = 0 THEN 30 ELSE Max(1, days)
    IN pruneByAge(mem, d, t)

\* deleteById: DELETE FROM memories WHERE id = ?
deleteById(mem, id) == {r \in mem : r.id # id}

\* Store.bulkDelete: one deleteById per list element inside a transaction,
\* counting the changes
RECURSIVE bulkDelete(_, _)
bulkDelete(mem, ids) ==
    IF ids = <<>> THEN [mem |-> mem, ret |-> 0]
    ELSE LET one == deleteById(mem, Head(ids))
             rest == bulkDelete(one, Tail(ids))
         IN [mem |-> rest.mem,
             ret |-> rest.ret + Cardinality(mem) - Cardinality(one)]

\* the session row of sid, as a set (empty when there is none)
SessionRows(ss, sid) == {s \in ss : s.sid = sid}

\* upsertSession: INSERT ... ON CONFLICT(session_id) DO UPDATE SET project
upsertSession(ss, sid, project, t) ==
    IF SessionRows(ss, sid) = {}
    THEN ss \cup {[sid |-> sid, project |-> project, ended |-> NoTime,
                   created |-> 0, compactions |-> 0]}
    ELSE {IF s.sid = sid THEN [s EXCEPT !.project = project] ELSE s : s \in ss}

\* endSession: UPDATE sessions SET ended_at = now WHERE session_id = ?
endSession(ss, sid, t) ==
    {IF s.sid = sid THEN [s EXCEPT !.ended = t] ELSE s : s \in ss}

\* incrSessionMemories: UPDATE sessions SET memories_created = memories_created + ?
incrSessionMemories(ss, sid, n) ==
    {IF s.sid = sid THEN [s EXCEPT !.created = @ + n] ELSE s : s \in ss}

\* incrSessionCompactions: UPDATE sessions SET compactions = compactions + 1
incrSessionCompactions(ss, sid) ==
    {IF s.sid = sid THEN [s EXCEPT !.compactions = @ + 1] ELSE s : s \in ss}

\* saveCheckpoint: INSERT INTO checkpoints (session_id, transcript_path, last_line_number)
saveCheckpoint(cps, sid, path, line) ==
    Append(cps, [sid |-> sid, path |-> path, line |-> line])

\* the WHERE clause with the transcript_path test left out
CheckpointIds_sessionOnly(cps, sid, path) ==
    {i \in 1..Len(cps) : cps[i].sid = sid}

\* ids of the checkpoint rows of (sid, path)
CheckpointIds(cps, sid, path) ==
    {i \in 1..Len(cps) : cps[i].sid = sid /\ cps[i].path = path}

\* Store.getCheckpoint: the row with the greatest id, NoRow (undefined) if none
NoLine == 0 - 1
NoRow == [sid |-> Null, path |-> Null, line |-> NoLine]
getCheckpointRow(cps, sid, path) ==
    LET ids == CheckpointIds(cps, sid, path)
    IN IF ids = {} THEN NoRow
       ELSE cps[CHOOSE i \in ids : \A j \in ids : j <= i]

\* getCheckpoint: ... WHERE session_id = ? AND transcript_path = ? ORDER BY id DESC LIMIT 1
\* together with the caller's `checkpoint ? checkpoint.last_line_number : 0`
getCheckpoint(cps, sid, path) ==
    LET ids == CheckpointIds(cps, sid, path)
    IN IF ids = {} THEN 0
       ELSE cps[CHOOSE i \in ids : \A j \in ids : j <= i].line

(* ------------------- transcript parser and extractor ------------------- *)
(* A transcript line is blank, junk (malformed JSON or an entry that is no *)
(* message: system, progress, ...), or a user / assistant message.  mem is *)
(* the source hash of the memory the extractor derives from the message    *)
(* (a user-request note, a decision), NoMem when it derives none.          *)

NoMem == "nomem"
Blank == [role |-> "blank", mem |-> NoMem]
Junk == [role |-> "junk", mem |-> NoMem]
Lines == {Blank, Junk, [role |-> "user", mem |-> "h1"], [role |-> "user", mem |-> NoMem],
          [role |-> "assistant", mem |-> "h2"]}
IsMessage(l) == l.role \in {"user", "assistant"}

\* the loop of parseTranscript from raw line i on; lineNum counts non-blank lines
RECURSIVE parseLines(_, _, _, _)
parseLines(lines, i, lineNum, startLine) ==
    IF i > Len(lines) THEN [messages |-> <<>>, lastLine |-> lineNum]
    ELSE IF lines[i].role = "blank" THEN parseLines(lines, i + 1, lineNum, startLine)
    ELSE LET rest == parseLines(lines, i + 1, lineNum + 1, startLine)
         IN IF lineNum + 1 <= startLine \/ ~IsMessage(lines[i]) THEN rest
            ELSE [messages |-> <<[lineNum |-> lineNum + 1, role |-> lines[i].role,
                                  mem |-> lines[i].mem, pos |-> i, text |-> "text",
                                  toolCalls |-> <<>>, toolResults |-> <<>>]>>
                               \o rest.messages,
                  lastLine |-> rest.lastLine]

\* parseTranscript(transcriptPath, startLine)
parseTranscript(file, startLine) ==
    IF ~file.exists THEN [messages |-> <<>>, lastLine |-> startLine]
    ELSE parseLines(file.lines, 1, 0, startLine)

\* every user message opens a turn
isSynthetic_never(msg, cur) == FALSE

\* !msg.text && msg.toolResults.length > 0 && current
isSynthetic(msg, cur) ==
    msg.text = "" /\ Len(msg.toolResults) > 0 /\ cur # <<>>

\* groupIntoTurns: cur is <<>> (null) or holds the open turn
RECURSIVE groupTurns(_, _, _)
groupTurns(msgs, turns, cur) ==
    IF msgs = <<>> THEN turns \o cur
    ELSE LET m == Head(msgs)
         IN IF m.role = "user"
            THEN IF isSynthetic(m, cur)
                 THEN groupTurns(Tail(msgs), turns,
                                 <<[cur[1] EXCEPT !.allToolResults = @ \o m.toolResults,
                                                  !.endLine = m.lineNum]>>)
                 ELSE groupTurns(Tail(msgs), turns \o cur,
                                 <<[userMessage |-> m, assistantMessages |-> <<>>,
                                    allToolCalls |-> <<>>, allToolResults |-> <<>>,
                                    startLine |-> m.lineNum, endLine |-> m.lineNum]>>)
            ELSE IF m.role = "assistant" /\ cur # <<>>
            THEN groupTurns(Tail(msgs), turns,
                            <<[cur[1] EXCEPT !.assistantMessages = Append(@, m),
                                             !.allToolCalls = @ \o m.toolCalls,
                                             !.allToolResults = @ \o m.toolResults,
                                             !.endLine = m.lineNum]>>)
            ELSE groupTurns(Tail(msgs), turns, cur)

groupIntoTurns(msgs) == groupTurns(msgs, <<>>, <<>>)

\* cfg.categoryWeights, and the weight of a category it does not list
categoryWeights ==
    [architecture |-> 1000, decision |-> 900, error |-> 800, finding |-> 700,
     file_change |-> 500, note |-> 400]
defaultWeight == 400

\* scoreMemory(category, content), len the length of content
scoreMemory(category, len) ==
    LET baseScore == IF category \in DOMAIN categoryWeights
                     THEN categoryWeights[category] ELSE defaultWeight
        lengthBonus == Min((len * SCALE) \div 500, 100)
    IN Min(baseScore + lengthBonus, SCALE)

userNoteScore == 350     \* scoreOverride: 0.35
decisionScore == 950     \* scoreMemory('decision', d): 0.9 + length bonus

\* decisions of the assistant messages of a turn, in order
RECURSIVE decisionsOf(_, _)
decisionsOf(asst, project) ==
    IF asst = <<>> THEN <<>>
    ELSE (IF Head(asst).mem = NoMem THEN <<>>
          ELSE <<[project |-> project, hash |-> Head(asst).mem, score |-> decisionScore]>>)
         \o decisionsOf(Tail(asst), project)

\* extractMemories: per turn the decisions, then the user-request note
RECURSIVE extractMemories(_, _)
extractMemories(turns, project) ==
    IF turns = <<>> THEN <<>>
    ELSE LET t == Head(turns)
         IN decisionsOf(t.assistantMessages, project)
            \o (IF t.userMessage.mem = NoMem THEN <<>>
                ELSE <<[project |-> project, hash |-> t.userMessage.mem,
                        score |-> userNoteScore]>>)
            \o extractMemories(Tail(turns), project)

\* number of non-blank lines of the file
RECURSIVE NonBlank(_)
NonBlank(lines) ==
    IF lines = <<>> THEN 0
    ELSE (IF Head(lines).role = "blank" THEN 0 ELSE 1) + NonBlank(Tail(lines))

\* pruneProject with ORDER BY score DESC
LimitVictims_highest(mem, project) ==
    LET rows == {r \in mem : r.project = project}
        excess == Max(0, Cardinality(rows) - maxMemoriesPerProject)
    IN {D \in SUBSET rows :
            /\ Cardinality(D) = excess
            /\ \A d \in D, k \in rows \ D : d.score >= k.score}

\* pruneProject: the rows enforceProjectLimit may delete, lowest scores first
\* (ORDER BY score ASC leaves the order among equal scores open)
LimitVictims(mem, project) ==
    LET rows == {r \in mem : r.project = project}
        excess == Max(0, Cardinality(rows) - maxMemoriesPerProject)
    IN {D \in SUBSET rows :
            /\ Cardinality(D) = excess
            /\ \A d \in D, k \in rows \ D : d.score <= k.score}

(* ------------------------------ restorer ------------------------------- *)
(* A memory handed to the restorer is a store row as the restorer reads it: *)
(* id, category, the length of content, score, access_count and the days   *)
(* since last_accessed.  A text is told by the lengths of its lines.        *)

\* estimateTokens(text) = Math.ceil(text.length / 3.5), on the length
estimateTokens(chars) == (2 * chars + 6) \div 7

\* computeImportance(memory, now) = base * recency * frequency, in thousandths:
\* recency = Math.exp(-0.693 * freshnessDays / 7) with freshnessDays =
\* max(0.01, days), frequency = Math.log2(access_count + 1) + 1, for the ages
\* and counts the inputs take
computeImportance(m) ==
    LET recency == IF m.days = 0 THEN 999 ELSE IF m.days = 1 THEN 906
                   ELSE IF m.days = 7 THEN 500 ELSE 51
        frequency == IF m.ac = 0 THEN 1000 ELSE IF m.ac = 1 THEN 2000 ELSE 3000
    IN (((m.score * recency) \div SCALE) * frequency) \div SCALE

\* ranked.sort((a, b) => b.importance - a.importance): stable, descending
RECURSIVE insertRanked(_, _)
insertRanked(sorted, m) ==
    IF sorted = <<>> THEN <<m>>
    ELSE IF computeImportance(Head(sorted)) >= computeImportance(m)
    THEN <<Head(sorted)>> \o insertRanked(Tail(sorted), m)
    ELSE <<m>> \o sorted

RECURSIVE sortRanked(_, _)
sortRanked(mems, sorted) ==
    IF mems = <<>> THEN sorted
    ELSE sortRanked(Tail(mems), insertRanked(sorted, Head(mems)))

\* categoryLabels, in the order the sections are emitted, with label lengths
categoryLabels ==
    <<[cat |-> "architecture", chars |-> 21], [cat |-> "decision", chars |-> 13],
      [cat |-> "error", chars |-> 12], [cat |-> "finding", chars |-> 8],
      [cat |-> "file_change", chars |-> 14], [cat |-> "note", chars |-> 5]>>

\* const cat = groups[m.category] ? m.category : 'note'
groupOf(category) ==
    IF \E i \in 1..Len(categoryLabels) : categoryLabels[i].cat = category
    THEN category ELSE "note"

TopHeaderChars == 42        \* '## Prior Context (restored from archive)\n\n'
SectionEstimateChars == 19  \* '### Category Label\n'
headerTokens == estimateTokens(TopHeaderChars)
sectionHeaderTokens == estimateTokens(SectionEstimateChars)

\* `- ${m.content}\n`
lineTokens(m) == estimateTokens(m.len + 3)

\* the budget loop that goes on to the next memory instead of stopping
RECURSIVE admit_continue(_, _, _, _)
admit_continue(ranked, totalTokens, seenCategories, maxTokens) ==
    IF ranked = <<>> THEN <<>>
    ELSE LET m == Head(ranked)
             cat == groupOf(m.category)
             extra == IF cat \notin seenCategories THEN sectionHeaderTokens ELSE 0
         IN IF totalTokens + lineTokens(m) + extra > maxTokens
            THEN admit_continue(Tail(ranked), totalTokens, seenCategories, maxTokens)
            ELSE <<m>> \o admit_continue(Tail(ranked), totalTokens + extra + lineTokens(m),
                                         seenCategories \cup {cat}, maxTokens)

\* the budget loop: the memories admitted, in rank order
RECURSIVE admit(_, _, _, _)
admit(ranked, totalTokens, seenCategories, maxTokens) ==
    IF ranked = <<>> THEN <<>>
    ELSE LET m == Head(ranked)
             cat == groupOf(m.category)
             extra == IF cat \notin seenCategories THEN sectionHeaderTokens ELSE 0
         IN IF totalTokens + lineTokens(m) + extra > maxTokens THEN <<>>
            ELSE <<m>> \o admit(Tail(ranked), totalTokens + extra + lineTokens(m),
                                seenCategories \cup {cat}, maxTokens)

\* sections: per category with admitted items `### label`, its lines
\* `- ${m.content}`, ''
RECURSIVE sectionsFrom(_, _)
sectionsFrom(i, admitted) ==
    IF i > Len(categoryLabels) THEN <<>>
    ELSE LET items == SelectSeq(admitted,
                                LAMBDA m : groupOf(m.category) = categoryLabels[i].cat)
         IN (IF items = <<>> THEN <<>>
             ELSE <<[kind |-> "section", chars |-> 4 + categoryLabels[i].chars, id |-> NoId]>>
                  \o [k \in 1..Len(items) |->
                        [kind |-> "memory", chars |-> items[k].len + 2, id |-> items[k].id]]
                  \o <<[kind |-> "blank", chars |-> 0, id |-> NoId]>>)
            \o sectionsFrom(i + 1, admitted)

\* restoreContext(memories, budget): text is the list of lines after the top
\* header, empty for the text ''
restoreContext(mems, budget) ==
    IF mems = <<>> THEN [text |-> <<>>, ids |-> <<>>]
    ELSE LET ranked == sortRanked(mems, <<>>)
             admitted == admit(ranked, headerTokens, {}, budget)
             sections == sectionsFrom(1, admitted)
         IN IF sections = <<>> THEN [text |-> <<>>, ids |-> <<>>]
            ELSE [text |-> sections,
                  ids |-> [k \in 1..Len(admitted) |-> admitted[k].id]]

\* text.length: the top header, the lines, and the '\n' that join them
RECURSIVE sumChars(_)
sumChars(lines) == IF lines = <<>> THEN 0 ELSE Head(lines).chars + sumChars(Tail(lines))
textLength(text) ==
    IF text = <<>> THEN 0 ELSE TopHeaderChars + sumChars(text) + Len(text) - 1

(* --------------------------- archive hooks ----------------------------- *)

NoFile == [exists |-> FALSE, lines |-> <<>>]
IdleRun == [hook |-> "none", pc |-> "idle", sid |-> "s1", key |-> "s1", project |-> "pA",
            startLine |-> 0, lastLine |-> 0, msgs |-> <<>>, mems |-> <<>>, inserted |-> 0,
            didParse |-> FALSE, didInsert |-> FALSE, didSave |-> FALSE, rolled |-> FALSE,
            read |-> NoFile]
NoCrash == [key |-> "none", read |-> NoFile, startLine |-> 0, store |-> {}]

\* no hook process of the other kinds is running, no rate-limit state yet
InitProc ==
    /\ proc = [pc |-> "none"]
    /\ promptState = <<>>
    /\ prompts = [clock |-> 0, started |-> 0, of |-> <<>>]
    /\ settings = [dir |-> "none", hooks |-> <<>>]
    /\ config = DEFAULTS

InitHook ==
    /\ transcript = [exists |-> TRUE, lines |-> <<>>]
    /\ run = IdleRun
    /\ runs = 0
    /\ unparsed = {}
    /\ crash = NoCrash

\* const agentSessionId = agentId ? `${sessionId}:${agentId}` : sessionId
agentSessionId(sessionId, agentId) ==
    IF agentId # Null THEN "s1:a1" ELSE sessionId

\* the pre-compact flow with the two store calls swapped
PreCompactFlow_saveFirst(pc, rollback, nMsgs, nMems) ==
    CASE pc = "start" -> "upsertSession"
      [] pc = "upsertSession" -> "getCheckpoint"
      [] pc = "getCheckpoint" -> "parse"
      [] pc = "parse" /\ rollback -> "reparse"
      [] (pc = "parse" /\ ~rollback) \/ pc = "reparse" ->
             IF nMsgs = 0 THEN "done"
             ELSE IF nMems = 0 THEN "saveAndReturn" ELSE "saveCheckpoint"
      [] pc = "saveCheckpoint" -> "insertMany"
      [] pc = "insertMany" -> "incrSessionMemories"
      [] pc = "incrSessionMemories" -> "incrSessionCompactions"
      [] pc = "incrSessionCompactions" -> "enforceProjectLimit"
      [] OTHER -> "done"

\* control flow of the pre-compact hook body: the step after pc
PreCompactFlow(pc, rollback, nMsgs, nMems) ==
    CASE pc = "start" -> "upsertSession"
      [] pc = "upsertSession" -> "getCheckpoint"
      [] pc = "getCheckpoint" -> "parse"
      [] pc = "parse" /\ rollback -> "reparse"
      [] (pc = "parse" /\ ~rollback) \/ pc = "reparse" ->
             IF nMsgs = 0 THEN "done"
             ELSE IF nMems = 0 THEN "saveAndReturn" ELSE "insertMany"
      [] pc = "insertMany" -> "saveCheckpoint"
      [] pc = "saveCheckpoint" -> "incrSessionMemories"
      [] pc = "incrSessionMemories" -> "incrSessionCompactions"
      [] pc = "incrSessionCompactions" -> "enforceProjectLimit"
      [] OTHER -> "done"

\* control flow of the subagent-stop hook body
SubagentStopFlow(pc, rollback, nMsgs, nMems) ==
    CASE pc = "start" -> "getCheckpoint"
      [] pc = "getCheckpoint" -> "parse"
      [] pc = "parse" /\ rollback -> "reparse"
      [] (pc = "parse" /\ ~rollback) \/ pc = "reparse" ->
             IF nMsgs = 0 THEN "done"
             ELSE IF nMems = 0 THEN "saveAndReturn" ELSE "insertMany"
      [] pc = "insertMany" -> "saveCheckpoint"
      [] pc = "saveCheckpoint" -> "incrSessionMemories"
      [] OTHER -> "done"

\* control flow of the session-end hook body (start is taken when a
\* transcript_path was given, startNoPath when it was not)
SessionEndFlow(pc, rollback, nMsgs, nMems) ==
    CASE pc = "start" -> "getCheckpoint"
      [] pc = "startNoPath" -> "decayScores"
      [] pc = "getCheckpoint" -> "parse"
      [] pc = "parse" /\ rollback -> "reparse"
      [] (pc = "parse" /\ ~rollback) \/ pc = "reparse" ->
             IF nMsgs > 0 /\ nMems > 0 THEN "insertMany" ELSE "decayScores"
      [] pc = "insertMany" -> "saveCheckpoint"
      [] pc = "saveCheckpoint" -> "incrSessionMemories"
      [] pc = "incrSessionMemories" -> "decayScores"
      [] pc = "decayScores" -> "pruneByScore"
      [] pc = "pruneByScore" -> "enforceProjectLimit"
      [] pc = "enforceProjectLimit" -> "endSession"
      [] OTHER -> "done"

Flow(hook, pc, rollback, nMsgs, nMems) ==
    CASE hook = "pre-compact" -> PreCompactFlow(pc, rollback, nMsgs, nMems)
      [] hook = "subagent-stop" -> SubagentStopFlow(pc, rollback, nMsgs, nMems)
      [] hook = "session-end" -> SessionEndFlow(pc, rollback, nMsgs, nMems)

\* the step after pc once the transcript has been parsed
Advance(r) == [r EXCEPT !.pc = Flow(r.hook, r.pc, FALSE, Len(r.msgs), Len(r.mems))]

(* --------------------- the store through one handle -------------------- *)

MemInputs == [project : {"pA"}, hash : HashInputs, score : ScoreInputs]
Batches(S) == UNION {[1..n -> S] : n \in 0..MaxBatch}
Ids == 1..MaxId

NoView == [mem |-> {}, nid |-> 0]
IdleConn == [op |-> "none", pc |-> "idle", items |-> <<>>, ids |-> <<>>, idx |-> 1,
             cnt |-> 0, snapVer |-> 0 - 1, view |-> NoView, err |-> FALSE]

InitConn ==
    /\ conn = [p \in Procs |-> IdleConn]
    /\ writer = NoProc
    /\ commits = 0
    /\ store0 = NoView
    /\ rounds = 0

InitStore ==
    /\ InitConn
    /\ InitHook
    /\ InitProc
    /\ memories = {}
    /\ fts = EmptyBag
    /\ nextId = 1
    /\ checkpoints = <<>>
    /\ sessions = {}
    /\ now = 0
    /\ last = [op |-> "open", ret |-> NoRet]

InsertMemory ==
    \E m \in MemInputs :
        /\ LET r == insertMemory([mem |-> memories, nid |-> nextId], m, now)
           IN /\ r.nid <= MaxId + 1
              /\ memories' = r.mem
              /\ nextId' = r.nid
              /\ last' = [op |-> "insertMemory", ret |-> r.ret]
        /\ fts' = Triggers(fts, memories, memories')
        /\ UNCHANGED <<nonStore, checkpoints, sessions, now>>

InsertMany ==
    \E items \in Batches(MemInputs) :
        /\ LET r == insertMany([mem |-> memories, nid |-> nextId], items, now)
           IN /\ r.nid <= MaxId + 1
              /\ memories' = r.mem
              /\ nextId' = r.nid
              /\ last' = [op |-> "insertMany", ret |-> r.ret]
        /\ fts' = Triggers(fts, memories, memories')
        /\ UNCHANGED <<nonStore, checkpoints, sessions, now>>

TouchMemories ==
    \E ids \in Batches(Ids) :
        /\ \A r \in memories : r.ac + Len(ids) <= MaxAccess
        /\ memories' = touchMemories(memories, ids, now)
        /\ last' = [op |-> "touchMemories", ret |-> NoRet]
        /\ fts' = Triggers(fts, memories, memories')
        /\ UNCHANGED <<nonStore, nextId, checkpoints, sessions, now>>

DecayAndPrune ==
    /\ \A r \in memories : r.dk < MaxDecay
    /\ memories' = decayAndPrune(memories, now)
    /\ last' = [op |-> "decayAndPrune",
                ret |-> Cardinality(decayScores(memories, now)) - Cardinality(memories')]
    /\ fts' = Triggers(Triggers(fts, memories, decayScores(memories, now)),
                       decayScores(memories, now), memories')
    /\ UNCHANGED <<nonStore, nextId, checkpoints, sessions, now>>

DeleteMemory ==
    \E id \in Ids :
        /\ memories' = deleteById(memories, id)
        /\ last' = [op |-> "deleteMemory",
                    ret |-> Cardinality(memories) - Cardinality(memories')]
        /\ fts' = Triggers(fts, memories, memories')
        /\ UNCHANGED <<nonStore, nextId, checkpoints, sessions, now>>

PruneBelowScore ==
    \E th \in {pruneThreshold, 400} :
        /\ memories' = pruneByScore(memories, th)
        /\ last' = [op |-> "pruneBelowScore",
                    ret |-> Cardinality(memories) - Cardinality(memories')]
        /\ fts' = Triggers(fts, memories, memories')
        /\ UNCHANGED <<nonStore, nextId, checkpoints, sessions, now>>

PruneOld ==
    \E days \in {0, 1} :
        /\ memories' = pruneOld(memories, days, now)
        /\ last' = [op |-> "pruneOld",
                    ret |-> Cardinality(memories) - Cardinality(memories')]
        /\ fts' = Triggers(fts, memories, memories')
        /\ UNCHANGED <<nonStore, nextId, checkpoints, sessions, now>>

BulkDelete ==
    \E ids \in Batches(Ids) :
        /\ LET r == bulkDelete(memories, ids)
           IN /\ memories' = r.mem
              /\ last' = [op |-> "bulkDelete", ret |-> r.ret]
        /\ fts' = Triggers(fts, memories, memories')
        /\ UNCHANGED <<nonStore, nextId, checkpoints, sessions, now>>

EnforceProjectLimit ==
    \E project \in Projects :
      \E D \in LimitVictims(memories, project) :
        /\ memories' = memories \ D
        /\ last' = [op |-> "enforceProjectLimit", ret |-> Cardinality(D),
                    project |-> project]
        /\ fts' = Triggers(fts, memories, memories')
        /\ UNCHANGED <<nonStore, nextId, checkpoints, sessions, now>>

UpsertSession ==
    \E sid \in Sessions, p \in Projects :
        /\ sessions' = upsertSession(sessions, sid, p, now)
        /\ last' = [op |-> "upsertSession", ret |-> NoRet, sid |-> sid]
        /\ UNCHANGED <<nonStore, memories, fts, nextId, checkpoints, now>>

EndSession ==
    \E sid \in Sessions :
        /\ sessions' = endSession(sessions, sid, now)
        /\ last' = [op |-> "endSession", ret |-> NoRet, sid |-> sid]
        /\ UNCHANGED <<nonStore, memories, fts, nextId, checkpoints, now>>

Tick ==
    /\ now < MaxTime
    /\ now' = now + 1
    /\ UNCHANGED <<nonStore, memories, fts, nextId, checkpoints, sessions, last>>

NextStore ==
    \/ InsertMemory
    \/ InsertMany
    \/ TouchMemories
    \/ DecayAndPrune
    \/ DeleteMemory
    \/ PruneBelowScore
    \/ PruneOld
    \/ BulkDelete
    \/ EnforceProjectLimit
    \/ Tick

SpecStore == InitStore /\ [][NextStore]_vars

IncrSessionMemories ==
    \E sid \in Sessions, n \in 0..MaxCount :
        /\ \A r \in SessionRows(sessions, sid) : r.created + n <= MaxCount
        /\ sessions' = incrSessionMemories(sessions, sid, n)
        /\ last' = [op |-> "incrSessionMemories", ret |-> NoRet, sid |-> sid]
        /\ UNCHANGED <<nonStore, memories, fts, nextId, checkpoints, now>>

IncrSessionCompactions ==
    \E sid \in Sessions :
        /\ \A r \in SessionRows(sessions, sid) : r.compactions < MaxCount
        /\ sessions' = incrSessionCompactions(sessions, sid)
        /\ last' = [op |-> "incrSessionCompactions", ret |-> NoRet, sid |-> sid]
        /\ UNCHANGED <<nonStore, memories, fts, nextId, checkpoints, now>>

\* last.latest remembers, per (session, path), the line of the latest save
InitCkpt ==
    /\ InitConn
    /\ InitHook
    /\ InitProc
    /\ memories = {}
    /\ fts = EmptyBag
    /\ nextId = 1
    /\ checkpoints = <<>>
    /\ sessions = {}
    /\ now = 0
    /\ last = [op |-> "open", ret |-> NoRet,
               latest |-> [k \in Sessions \X Paths |-> NoLine]]

SaveCheckpoint ==
    \E sid \in Sessions, path \in Paths, line \in 0..MaxLines :
        /\ Len(checkpoints) < MaxCkpt
        /\ checkpoints' = saveCheckpoint(checkpoints, sid, path, line)
        /\ last' = [op |-> "saveCheckpoint", ret |-> NoRet, sid |-> sid,
                    latest |-> [last.latest EXCEPT ![<<sid, path>>] = line]]
        /\ UNCHANGED <<nonStore, memories, fts, nextId, sessions, now>>

NextSess ==
    \/ UpsertSession
    \/ EndSession
    \/ IncrSessionMemories
    \/ IncrSessionCompactions
    \/ Tick

SpecSess == InitStore /\ [][NextSess]_vars

NextCkpt == SaveCheckpoint

SpecCkpt == InitCkpt /\ [][NextCkpt]_vars

(* insertMany called twice with the same list, on any store the single     *)
(* inserts before it have built                                            *)

InsertManyFirst ==
    \E items \in Batches(MemInputs) :
        /\ last.op \in {"open", "insertMemory"}
        /\ LET r == insertMany([mem |-> memories, nid |-> nextId], items, now)
           IN /\ memories' = r.mem
              /\ nextId' = r.nid
              /\ last' = [op |-> "insertMany", ret |-> r.ret, items |-> items,
                          calls |-> 1, first |-> r.ret]
        /\ fts' = Triggers(fts, memories, memories')
        /\ UNCHANGED <<nonStore, checkpoints, sessions, now>>

InsertManyAgain ==
    /\ last.op = "insertMany"
    /\ last.calls = 1
    /\ LET r == insertMany([mem |-> memories, nid |-> nextId], last.items, now)
       IN /\ memories' = r.mem
          /\ nextId' = r.nid
          /\ last' = [last EXCEPT !.ret = r.ret, !.calls = 2]
    /\ fts' = Triggers(fts, memories, memories')
    /\ UNCHANGED <<nonStore, checkpoints, sessions, now>>

NextBatch ==
    \/ (last.op \in {"open", "insertMemory"} /\ InsertMemory)
    \/ InsertManyFirst
    \/ InsertManyAgain

SpecBatch == InitStore /\ [][NextBatch]_vars

(* memories with the scores the extractor gives, then touches and decay    *)

\* the lowest and the highest score buildMemory can give: the user-request
\* note's override, and a long architecture item
ExtractorScores == {userNoteScore, scoreMemory("architecture", 500)}

InsertExtracted ==
    \E m \in [project : {"pA"}, hash : {Null}, score : ExtractorScores] :
        /\ LET r == insertMany([mem |-> memories, nid |-> nextId], <<m>>, now)
           IN /\ r.nid <= MaxId + 1
              /\ memories' = r.mem
              /\ nextId' = r.nid
              /\ last' = [op |-> "insertMany", ret |-> r.ret]
        /\ fts' = Triggers(fts, memories, memories')
        /\ UNCHANGED <<nonStore, checkpoints, sessions, now>>

NextScore ==
    \/ InsertExtracted
    \/ TouchMemories
    \/ DecayAndPrune
    \/ Tick

SpecScore == InitStore /\ [][NextScore]_vars

(* memories of two projects and the per-project cap                        *)

InsertAnyProject ==
    \E m \in [project : Projects, hash : {Null}, score : ScoreInputs] :
        /\ nextId <= MaxId + maxMemoriesPerProject
        /\ LET r == insertMemory([mem |-> memories, nid |-> nextId], m, now)
           IN /\ memories' = r.mem
              /\ nextId' = r.nid
              /\ last' = [op |-> "insertMemory", ret |-> r.ret]
        /\ fts' = Triggers(fts, memories, memories')
        /\ UNCHANGED <<nonStore, checkpoints, sessions, now>>

NextLimit ==
    \/ InsertAnyProject
    \/ EnforceProjectLimit

SpecLimit == InitStore /\ [][NextLimit]_vars

(* restoreContext on lists of memories and budgets                         *)

\* memories as the store hands them over, less the id: two known categories
\* and an unknown one, empty and short contents, three rankings
RestoreInputs ==
    {[category |-> c, len |-> n, score |-> p.score, ac |-> p.ac, days |-> p.days] :
        c \in {"architecture", "decision", "misc"}, n \in {0, 4},
        p \in {[score |-> 900, ac |-> 0, days |-> 30], [score |-> 500, ac |-> 3, days |-> 0],
               [score |-> 350, ac |-> 0, days |-> 0]}}

InitRestore ==
    /\ InitConn
    /\ InitHook
    /\ InitProc
    /\ memories = {}
    /\ fts = EmptyBag
    /\ nextId = 1
    /\ checkpoints = <<>>
    /\ sessions = {}
    /\ now = 0
    /\ \E list \in UNION {[1..n -> RestoreInputs] : n \in 0..MaxMems}, b \in 0..MaxBudget :
           last = [op |-> "input", ret |-> NoRet, budget |-> b, text |-> <<>>, ids |-> <<>>,
                   mems |-> [i \in 1..Len(list) |->
                                [id |-> i, category |-> list[i].category, len |-> list[i].len,
                                 score |-> list[i].score, ac |-> list[i].ac,
                                 days |-> list[i].days]]]

RestoreContext ==
    /\ last.op = "input"
    /\ LET r == restoreContext(last.mems, last.budget)
       IN last' = [last EXCEPT !.op = "restoreContext", !.text = r.text, !.ids = r.ids]
    /\ UNCHANGED <<nonStore, memories, fts, nextId, checkpoints, sessions, now>>

NextRestore == RestoreContext

SpecRestore == InitRestore /\ [][NextRestore]_vars

(* ------------------- a hook process, start to exit --------------------- *)
(* runHook(name, fn): fn awaits readStdin, then runs to its end without     *)
(* another await.  Standard input is a terminal or a stream the host writes *)
(* to; what was read is '' or one document.  The process ends by            *)
(* process.exit, by an 'error' event nobody listens to, or when nothing     *)
(* keeps the event loop alive: a stream that was resumed and has neither    *)
(* ended nor failed keeps it alive, and so does an armed timer.             *)

\* the documents the host may write: not JSON, JSON null, a JSON value that is
\* no object (42, true, []), an object without the fields the hook needs, and
\* an object with them
Documents == {"malformed", "null", "nonobject", "nofields", "valid"}

\* data ? JSON.parse(data) : null, with catch { done(null) }
parseInput(data) == IF data \in {"", "malformed", "null"} THEN "null" ELSE data

\* done without its resolved flag
done_unguarded(p, value) ==
    [p EXCEPT !.resolved = TRUE, !.resolves = @ + 1,
              !.value = IF p.resolves = 0 THEN value ELSE @]

\* done(value) of readStdin; resolves counts the calls of resolve, value is
\* what the promise delivers (the value of the first call)
done(p, value) ==
    IF p.resolved THEN p
    ELSE [p EXCEPT !.resolved = TRUE, !.resolves = @ + 1,
                   !.value = IF p.resolves = 0 THEN value ELSE @]

\* the hook body that closes the store only where it returns normally
hookBody_noFinally(input, open, ops, end) ==
    IF input \in {"null", "nonobject", "nofields"} \/ open # "ok"
    THEN [db |-> IF open = "bootstrap" /\ input = "valid" THEN "closed" ELSE "none",
          threw |-> FALSE, wrote |-> FALSE, ops |-> 0]
    ELSE [db |-> IF end = "throw" THEN "open" ELSE "closed", threw |-> end = "throw",
          wrote |-> end = "output", ops |-> ops]

\* the body of a hook after readStdin: the input checks, openDb (new
\* Database fails: no handle; bootstrap fails: Store.open closes the handle;
\* both caught by openDb, which returns null), then store operations until an
\* early return, an exception or the output, and finally db.close()
hookBody(input, open, ops, end) ==
    IF input \in {"null", "nonobject", "nofields"} \/ open # "ok"
    THEN [db |-> IF open = "bootstrap" /\ input = "valid" THEN "closed" ELSE "none",
          threw |-> FALSE, wrote |-> FALSE, ops |-> 0]
    ELSE [db |-> "closed", threw |-> end = "throw", wrote |-> end = "output", ops |-> ops]

\* runHook that lets the exception of fn end the process
runHook_uncaught(p, b, buffered) ==
    [p EXCEPT !.db = b.db, !.threw = b.threw, !.ops = b.ops,
              !.out = IF ~b.wrote THEN "none" ELSE IF buffered THEN "pending" ELSE "written",
              !.exitCode = IF b.threw THEN 1 ELSE 0,
              !.pc = IF b.threw THEN "exited"
                     ELSE IF b.wrote /\ buffered THEN "drain" ELSE "wait"]

\* runHook(name, fn) once fn has settled with outcome b: what fn threw is
\* caught and logged, process.exitCode = 0 and, when stdout holds unwritten
\* bytes, process.exit(0) is arranged on 'drain' or after 200 ms
runHook(p, b, buffered) ==
    [p EXCEPT !.db = b.db, !.threw = b.threw, !.ops = b.ops,
              !.out = IF ~b.wrote THEN "none" ELSE IF buffered THEN "pending" ELSE "written",
              !.exitCode = 0,
              !.pc = IF b.wrote /\ buffered THEN "drain" ELSE "wait"]

\* the process when fn has called readStdin: on a terminal the promise is
\* resolved with null at once; otherwise the timer is armed, the listeners are
\* on and the stream is resumed
InitRunHook ==
    /\ InitConn
    /\ InitHook
    /\ memories = {}
    /\ fts = EmptyBag
    /\ nextId = 1
    /\ checkpoints = <<>>
    /\ sessions = {}
    /\ now = 0
    /\ last = [op |-> "open", ret |-> NoRet]
    /\ promptState = <<>>
    /\ prompts = [clock |-> 0, started |-> 0, of |-> <<>>]
    /\ settings = [dir |-> "none", hooks |-> <<>>]
    /\ config = DEFAULTS
    /\ \E tty \in BOOLEAN :
          proc = [pc |-> "await", stdin |-> IF tty THEN "tty" ELSE "open", data |-> "",
                  ended |-> FALSE, failed |-> FALSE, listeners |-> ~tty,
                  timer |-> IF tty THEN "none" ELSE "armed", resolved |-> FALSE,
                  resolves |-> IF tty THEN 1 ELSE 0, value |-> IF tty THEN "null" ELSE "unset",
                  db |-> "none", threw |-> FALSE, ops |-> 0, out |-> "none",
                  exitCode |-> NoRet, unhandled |-> FALSE]

\* the host writes its document; on('data') appends it
StdinData ==
    /\ proc.pc \notin {"none", "exited"}
    /\ proc.stdin = "open" /\ ~proc.ended /\ ~proc.failed
    /\ proc.listeners /\ proc.data = ""
    /\ \E d \in Documents : proc' = [proc EXCEPT !.data = d]
    /\ UNCHANGED <<storeVars, concVars, hookVars, promptState, prompts, settings, config>>

\* the stream ends: on('end') clears the timer and delivers what was read
StdinEnd ==
    /\ proc.pc \notin {"none", "exited"}
    /\ proc.stdin = "open" /\ ~proc.ended
    /\ proc' = IF proc.listeners
               THEN [done(proc, parseInput(proc.data)) EXCEPT
                        !.ended = TRUE,
                        !.timer = IF @ = "armed" THEN "cleared" ELSE @]
               ELSE [proc EXCEPT !.ended = TRUE]
    /\ UNCHANGED <<storeVars, concVars, hookVars, promptState, prompts, settings, config>>

\* the stream fails: on('error') clears the timer and delivers null; an
\* 'error' event without a listener is thrown and ends the process
StdinError ==
    /\ proc.pc \notin {"none", "exited"}
    /\ proc.stdin = "open" /\ ~proc.failed
    /\ proc' = IF proc.listeners
               THEN [done(proc, "null") EXCEPT
                        !.failed = TRUE,
                        !.timer = IF @ = "armed" THEN "cleared" ELSE @]
               ELSE [proc EXCEPT !.failed = TRUE, !.unhandled = TRUE,
                                 !.pc = "exited", !.exitCode = 1]
    /\ UNCHANGED <<storeVars, concVars, hookVars, promptState, prompts, settings, config>>

\* the timer fires: removeAllListeners, then deliver what was read so far
StdinTimeout ==
    /\ proc.pc \notin {"none", "exited"}
    /\ proc.timer = "armed"
    /\ proc' = [done(proc, parseInput(proc.data)) EXCEPT
                  !.timer = "fired", !.listeners = FALSE]
    /\ UNCHANGED <<storeVars, concVars, hookVars, promptState, prompts, settings, config>>

\* fn resumes with the input and runs to its end, and runHook after it
RunHookBody ==
    /\ proc.pc = "await"
    /\ proc.resolves >= 1
    /\ \E open \in {"ok", "nofile", "bootstrap"}, ops \in 0..MaxOps,
          end \in {"return", "throw", "output"}, buffered \in BOOLEAN :
          proc' = runHook(proc, hookBody(proc.value, open, ops, end), buffered)
    /\ UNCHANGED <<storeVars, concVars, hookVars, promptState, prompts, settings, config>>

\* 'drain' or the 200 ms timer: process.exit(0)
DrainExit ==
    /\ proc.pc = "drain"
    /\ proc' = [proc EXCEPT !.pc = "exited", !.exitCode = 0, !.out = "written"]
    /\ UNCHANGED <<storeVars, concVars, hookVars, promptState, prompts, settings, config>>

\* nothing keeps the event loop alive: the process ends with process.exitCode
LoopExit ==
    /\ proc.pc = "wait"
    /\ proc.timer # "armed"
    /\ proc.stdin = "tty" \/ proc.ended \/ proc.failed
    /\ proc' = [proc EXCEPT !.pc = "exited"]
    /\ UNCHANGED <<storeVars, concVars, hookVars, promptState, prompts, settings, config>>

NextProc ==
    \/ StdinData
    \/ StdinEnd
    \/ StdinError
    \/ StdinTimeout
    \/ RunHookBody
    \/ DrainExit
    \/ LoopExit

SpecProc == InitRunHook /\ [][NextProc]_vars

\* the process takes the steps it can take; the host owes it nothing
SpecProcLive ==
    SpecProc /\ WF_vars(StdinTimeout \/ RunHookBody \/ DrainExit \/ LoopExit)

(* ------------- several connections on one database file ---------------- *)
(* Store.open sets journal_mode = WAL and busy_timeout = 5000.  A statement *)
(* outside db.transaction() is its own transaction; db.transaction() runs   *)
(* BEGIN (deferred) ... COMMIT, with ROLLBACK when the function throws.     *)
(* A read inside a transaction pins a snapshot; a write needs the single    *)
(* write lock.  A connection that has no snapshot waits for the lock (busy  *)
(* handler, up to the timeout); one that holds a snapshot gets SQLITE_BUSY  *)
(* at once when the lock is taken or its snapshot is stale.                 *)

ConcMems == [project : {"pA"}, hash : {"h1", Null}, score : {350}]

\* a stored row that decay has worn down to just above the prune threshold
WornRow ==
    [id |-> 1, project |-> "pA", hash |-> Null, score |-> 52, ca |-> 0, la |-> 0,
     ac |-> 0, dk |-> 0]

Committed == [mem |-> memories, nid |-> nextId]
Active(p) == conn[p].pc \notin {"idle", "done"}
Quiet == \A p \in Procs : ~Active(p)

RECURSIVE SumLen(_)
SumLen(ps) ==
    IF ps = {} THEN 0
    ELSE LET p == CHOOSE q \in ps : TRUE
         IN Len(conn[p].items) + SumLen(ps \ {p})

\* ids that the calls in progress may still consume
Reserved == SumLen({p \in Procs : Active(p)})

Done(c, ret) == [c EXCEPT !.pc = "done", !.cnt = ret]
Thrown(c) == [c EXCEPT !.pc = "done", !.err = TRUE]

\* where a call stands before it handles items[i]: insertMemory runs
\* hashExists only for a truthy sourceHash
ItemPc(items, i) ==
    IF i > Len(items) THEN "commit"
    ELSE IF Truthy(items[i].hash) THEN "check" ELSE "insert"

InitConc ==
    /\ InitConn
    /\ InitHook
    /\ InitProc
    /\ memories \in {{}, {WornRow}}
    /\ fts = SetToBag(RowIds(memories))
    /\ nextId = Cardinality(memories) + 1
    /\ checkpoints = <<>>
    /\ sessions = {}
    /\ now = MaxTime
    /\ last = [op |-> "open", ret |-> NoRet]

\* process p enters a call with connection state c; a call made when every
\* process is quiet and p has finished its previous one opens a new round
Enter(p, c) ==
    IF conn[p].pc = "idle" /\ rounds >= 1
    THEN /\ conn' = [conn EXCEPT ![p] = c]
         /\ UNCHANGED <<store0, rounds>>
    ELSE /\ Quiet
         /\ rounds < MaxRounds
         /\ conn' = [q \in Procs |-> IF q = p THEN c ELSE IdleConn]
         /\ store0' = Committed
         /\ rounds' = rounds + 1

CallInsertMemory(p) ==
    \E m \in ConcMems :
        /\ nextId + Reserved <= MaxId
        /\ Enter(p, [IdleConn EXCEPT !.op = "insertMemory", !.items = <<m>>,
                                     !.pc = ItemPc(<<m>>, 1)])
        /\ UNCHANGED <<procVars, hookVars, storeVars, writer, commits>>

CallInsertMany(p) ==
    \E items \in Batches(ConcMems) :
        /\ nextId + Reserved + Len(items) - 1 <= MaxId
        /\ Enter(p, [IdleConn EXCEPT !.op = "insertMany", !.items = items,
                                     !.pc = ItemPc(items, 1)])
        /\ UNCHANGED <<procVars, hookVars, storeVars, writer, commits>>

CallTouchMemories(p) ==
    \E ids \in Batches(Ids) :
        /\ Enter(p, [IdleConn EXCEPT !.op = "touchMemories", !.ids = ids,
                                     !.pc = IF ids = <<>> THEN "commit" ELSE "touch"])
        /\ UNCHANGED <<procVars, hookVars, storeVars, writer, commits>>

CallDecayAndPrune(p) ==
    /\ Enter(p, [IdleConn EXCEPT !.op = "decayAndPrune", !.pc = "decay"])
    /\ UNCHANGED <<procVars, hookVars, storeVars, writer, commits>>

\* insertMemory outside a transaction: the hashExists SELECT
StmtHashExists(p) ==
    /\ conn[p].op = "insertMemory" /\ conn[p].pc = "check"
    /\ conn' = [conn EXCEPT ![p] =
                  IF hashExists(memories, conn[p].items[1].hash)
                  THEN Done(@, NoId) ELSE [@ EXCEPT !.pc = "insert"]]
    /\ UNCHANGED <<procVars, hookVars, storeVars, writer, commits, store0, rounds>>

\* insertMemory outside a transaction: the INSERT, committed on its own
StmtInsert(p) ==
    /\ conn[p].op = "insertMemory" /\ conn[p].pc = "insert"
    /\ writer = NoProc
    /\ memories' = memories \cup {NewRow(nextId, conn[p].items[1], now)}
    /\ nextId' = nextId + 1
    /\ commits' = commits + 1
    /\ conn' = [conn EXCEPT ![p] = Done(@, nextId)]
    /\ fts' = Triggers(fts, memories, memories')
    /\ UNCHANGED <<procVars, hookVars, checkpoints, sessions, now, last, writer, store0, rounds>>

\* insertMany: the hashExists SELECT of the current item, inside the transaction
TxnHashExists(p) ==
    LET c == conn[p]
        view == IF writer = p \/ c.snapVer >= 0 THEN c.view ELSE Committed
        ver == IF writer = p \/ c.snapVer >= 0 THEN c.snapVer ELSE commits
    IN /\ c.op = "insertMany" /\ c.pc = "check"
       /\ conn' = [conn EXCEPT ![p] =
                     IF hashExists(view.mem, c.items[c.idx].hash)
                     THEN [@ EXCEPT !.view = view, !.snapVer = ver, !.idx = @ + 1,
                                    !.pc = ItemPc(c.items, c.idx + 1)]
                     ELSE [@ EXCEPT !.view = view, !.snapVer = ver, !.pc = "insert"]]
       /\ UNCHANGED <<procVars, hookVars, storeVars, writer, commits, store0, rounds>>

\* insertMany: the INSERT of the current item, inside the transaction
TxnInsert(p) ==
    LET c == conn[p]
        base == IF writer = p \/ c.snapVer >= 0 THEN c.view ELSE Committed
        grown == [mem |-> base.mem \cup {NewRow(base.nid, c.items[c.idx], now)},
                  nid |-> base.nid + 1]
    IN /\ c.op = "insertMany" /\ c.pc = "insert"
       /\ IF writer # p /\ c.snapVer >= 0 /\ (writer # NoProc \/ c.snapVer # commits)
          THEN /\ conn' = [conn EXCEPT ![p] = Thrown(@)]
               /\ UNCHANGED writer
          ELSE /\ writer \in {p, NoProc}
               /\ writer' = p
               /\ conn' = [conn EXCEPT ![p] =
                             [@ EXCEPT !.view = grown, !.snapVer = commits, !.cnt = @ + 1,
                                       !.idx = @ + 1, !.pc = ItemPc(c.items, c.idx + 1)]]
       /\ UNCHANGED <<procVars, hookVars, storeVars, commits, store0, rounds>>

\* touchMemories: the UPDATEs of the loop; the first one takes the write lock
TxnTouch(p) ==
    /\ conn[p].op = "touchMemories" /\ conn[p].pc = "touch"
    /\ writer = NoProc
    /\ writer' = p
    /\ conn' = [conn EXCEPT ![p] =
                  [@ EXCEPT !.view = [mem |-> touchMemories(memories, conn[p].ids, now),
                                      nid |-> nextId],
                            !.snapVer = commits, !.pc = "commit"]]
    /\ UNCHANGED <<procVars, hookVars, storeVars, commits, store0, rounds>>

\* COMMIT of db.transaction(): publishes the writes and frees the lock
TxnCommit(p) ==
    /\ conn[p].pc = "commit"
    /\ IF writer = p
       THEN /\ memories' = conn[p].view.mem
            /\ fts' = Triggers(fts, memories, memories')
            /\ nextId' = conn[p].view.nid
            /\ commits' = commits + 1
            /\ writer' = NoProc
       ELSE UNCHANGED <<memories, fts, nextId, commits, writer>>
    /\ conn' = [conn EXCEPT ![p] = Done(@, @.cnt)]
    /\ UNCHANGED <<procVars, hookVars, checkpoints, sessions, now, last, store0, rounds>>

\* decayAndPrune: the decayScores UPDATE, committed on its own
StmtDecay(p) ==
    /\ conn[p].op = "decayAndPrune" /\ conn[p].pc = "decay"
    /\ writer = NoProc
    /\ memories' = decayScores(memories, now)
    /\ commits' = commits + 1
    /\ conn' = [conn EXCEPT ![p] = [@ EXCEPT !.pc = "prune"]]
    /\ fts' = Triggers(fts, memories, memories')
    /\ UNCHANGED <<procVars, hookVars, nextId, checkpoints, sessions, now, last, writer, store0, rounds>>

\* decayAndPrune: the pruneByScore DELETE, committed on its own
StmtPrune(p) ==
    /\ conn[p].op = "decayAndPrune" /\ conn[p].pc = "prune"
    /\ writer = NoProc
    /\ memories' = pruneByScore(memories, pruneThreshold)
    /\ commits' = commits + 1
    /\ conn' = [conn EXCEPT ![p] = Done(@, Cardinality(memories) - Cardinality(memories'))]
    /\ fts' = Triggers(fts, memories, memories')
    /\ UNCHANGED <<procVars, hookVars, nextId, checkpoints, sessions, now, last, writer, store0, rounds>>

\* a write that waits for the lock of another connection may outlast
\* busy_timeout and throw SQLITE_BUSY
Waiting(p) ==
    \/ conn[p].pc \in {"decay", "prune", "touch"}
    \/ conn[p].op = "insertMemory" /\ conn[p].pc = "insert"
    \/ conn[p].op = "insertMany" /\ conn[p].pc = "insert" /\ conn[p].snapVer < 0

BusyTimeout(p) ==
    /\ Waiting(p)
    /\ writer \notin {p, NoProc}
    /\ conn' = [conn EXCEPT ![p] = Thrown(@)]
    /\ UNCHANGED <<procVars, hookVars, storeVars, writer, commits, store0, rounds>>

NextConc ==
    \E p \in Procs :
        \/ CallInsertMemory(p)
        \/ CallInsertMany(p)
        \/ CallTouchMemories(p)
        \/ CallDecayAndPrune(p)
        \/ StmtHashExists(p)
        \/ StmtInsert(p)
        \/ TxnHashExists(p)
        \/ TxnInsert(p)
        \/ TxnTouch(p)
        \/ TxnCommit(p)
        \/ StmtDecay(p)
        \/ StmtPrune(p)
        \/ BusyTimeout(p)

SpecConc == InitConc /\ [][NextConc]_vars

\* what a call does to the store when nothing runs beside it
ApplyCall(db, c, t) ==
    CASE c.op = "insertMemory" ->
             LET r == insertMemory(db, c.items[1], t) IN [mem |-> r.mem, nid |-> r.nid]
      [] c.op = "insertMany" ->
             LET r == insertMany(db, c.items, t) IN [mem |-> r.mem, nid |-> r.nid]
      [] c.op = "touchMemories" -> [mem |-> touchMemories(db.mem, c.ids, t), nid |-> db.nid]
      [] c.op = "decayAndPrune" -> [mem |-> decayAndPrune(db.mem, t), nid |-> db.nid]
      [] OTHER -> db

\* the store after the calls of p and then of q, one after the other
Serial(p, q) == ApplyCall(ApplyCall(store0, conn[p], now), conn[q], now)

\* process p's call inserts a memory carrying hash h
Inserts(p, h) ==
    /\ conn[p].op \in {"insertMemory", "insertMany"}
    /\ \E i \in 1..Len(conn[p].items) : conn[p].items[i].hash = h

(* --------------- the restore hooks: session-start, subagent-start ------ *)
(* Each hook runs from its input to its output without a suspension point   *)
(* and is one step.  maxMemoriesPerRestore is read from the configuration   *)
(* file by every hook process; maxRestoreTokens has its default.            *)

maxRestoreTokens == 4000

\* the source filter that lets every source through
sourceAllowed_any(source) == TRUE

\* if (source && !['compact', 'clear', 'resume', 'startup'].includes(source)) return
sourceAllowed(source) ==
    ~(Truthy(source) /\ source \notin {"compact", "clear", "resume", "startup"})

\* Store.getTopMemories(project, limit): SELECT * FROM memories WHERE project = ?
\* ORDER BY score DESC LIMIT (limit || cfg.maxMemoriesPerRestore); the lists
\* the statement may return (rows of equal score come in any order)
getTopMemories(mem, project, limit, cfgMax) ==
    LET rows == {r \in mem : r.project = project}
        n == Min(IF limit = 0 THEN cfgMax ELSE limit, Cardinality(rows))
    IN {q \in [1..n -> rows] :
           /\ \A i, j \in 1..n : i < j => q[i] # q[j] /\ q[i].score >= q[j].score
           /\ \A r \in rows : (\A i \in 1..n : q[i] # r) =>
                 \A i \in 1..n : q[i].score >= r.score}

\* the common end of both hooks: no memories, return; restoreContext; no
\* text, return; db.touchMemories(ids); writeHookOutput(text)
restoreAndTouch(mem, rows, budget, t) ==
    LET r == restoreContext([i \in 1..Len(rows) |->
                                [id |-> rows[i].id, category |-> "note", len |-> 20,
                                 score |-> rows[i].score, ac |-> rows[i].ac,
                                 days |-> (t - rows[i].la) \div DayTicks]], budget)
    IN IF r.text = <<>> THEN [mem |-> mem, ids |-> <<>>]
       ELSE [mem |-> touchMemories(mem, r.ids, t), ids |-> r.ids]

\* a store that holds two memories of project pA and one of pB
InitStart ==
    /\ InitConn
    /\ InitHook
    /\ InitProc
    /\ memories = {[WornRow EXCEPT !.id = i, !.score = IF i = 1 THEN 350 ELSE 52,
                                   !.project = IF i = 3 THEN "pB" ELSE "pA"] : i \in 1..3}
    /\ fts = SetToBag(RowIds(memories))
    /\ nextId = 4
    /\ checkpoints = <<>>
    /\ sessions = {}
    /\ now = 0
    /\ last = [op |-> "open", ret |-> NoRet]

\* runHook('session-start')
SessionStart ==
    \E sessionId \in Sessions \cup {Null}, cwd \in Projects \cup {Null},
       source \in {"compact", "clear", "resume", "startup", "user", "", Null},
       cfgMax \in 1..MaxPerRestore :
        /\ IF cwd = Null \/ ~sourceAllowed(source)
           THEN /\ last' = [op |-> "session-start", ret |-> NoRet, source |-> source,
                            cwd |-> cwd, cap |-> cfgMax, fetched |-> 0, ids |-> <<>>]
                /\ UNCHANGED <<memories, fts, sessions>>
           ELSE \E rows \in getTopMemories(memories, cwd, 0, cfgMax) :
                   /\ \A i \in 1..Len(rows) : rows[i].ac < MaxAccess
                   /\
                      LET budget == IF source = "compact" THEN Min(maxRestoreTokens, 2000)
                                    ELSE maxRestoreTokens
                          r == restoreAndTouch(memories, rows, budget, now)
                      IN /\ sessions' = IF sessionId = Null THEN sessions
                                        ELSE upsertSession(sessions, sessionId, cwd, now)
                         /\ memories' = r.mem
                         /\ fts' = Triggers(fts, memories, memories')
                         /\ last' = [op |-> "session-start", ret |-> NoRet,
                                     source |-> source, cwd |-> cwd, cap |-> cfgMax,
                                     fetched |-> Len(rows), ids |-> r.ids]
        /\ UNCHANGED <<nonStore, nextId, checkpoints, now>>

\* runHook('subagent-start')
SubagentStart ==
    \E cwd \in Projects \cup {Null}, cfgMax \in 1..MaxPerRestore :
        /\ IF cwd = Null
           THEN /\ last' = [op |-> "subagent-start", ret |-> NoRet, source |-> Null,
                            cwd |-> cwd, cap |-> (cfgMax * 6) \div 10, fetched |-> 0,
                            ids |-> <<>>]
                /\ UNCHANGED <<memories, fts>>
           ELSE \E rows \in getTopMemories(memories, cwd, (cfgMax * 6) \div 10, cfgMax) :
                   /\ \A i \in 1..Len(rows) : rows[i].ac < MaxAccess
                   /\ LET r == restoreAndTouch(memories, rows,
                                               (maxRestoreTokens * 6) \div 10, now)
                      IN /\ memories' = r.mem
                         /\ fts' = Triggers(fts, memories, memories')
                         /\ last' = [op |-> "subagent-start", ret |-> NoRet,
                                     source |-> Null, cwd |-> cwd,
                                     cap |-> (cfgMax * 6) \div 10,
                                     fetched |-> Len(rows), ids |-> r.ids]
        /\ UNCHANGED <<nonStore, nextId, checkpoints, sessions, now>>

NextStart ==
    \/ SessionStart
    \/ SubagentStart

SpecStart == InitStart /\ [][NextStart]_vars

(* ----------------------- install and uninstall ------------------------- *)
(* settings.hooks maps an event to a list of groups; a group is the list   *)
(* of its hook commands.  A command is the directory and the file it runs. *)

HOOK_MARKER == "infinite-context"
InstallDirs == {HOOK_MARKER, "ic"}
Events == {"PreCompact", "SessionStart", "PreToolUse"}

\* Object.keys(buildHookConfig()), two of the six events
OurEvents == {"PreCompact", "SessionStart"}

\* commands a settings file holds before install: a script elsewhere, and a
\* script of the user's kept under a directory named infinite-context
UserCommands == {[dir |-> "usr", file |-> "guard"], [dir |-> HOOK_MARKER, file |-> "notes"]}

\* getHookCommand(hookFile): node HOOKS_DIR/hookFile
getHookCommand(dir, event) == [dir |-> dir, file |-> event]

\* group.hooks?.some(h => h.command?.includes(HOOK_MARKER))
isOurs(group) == \E i \in 1..Len(group) : group[i].dir = HOOK_MARKER

\* install(): the hooks afterwards, and the events a group was pushed to
install(st) ==
    LET adds == {e \in OurEvents : ~\E i \in 1..Len(st.hooks[e]) : isOurs(st.hooks[e][i])}
    IN [hooks |-> [e \in Events |->
                     IF e \in adds THEN Append(st.hooks[e], <<getHookCommand(st.dir, e)>>)
                     ELSE st.hooks[e]],
        added |-> adds]

\* uninstall(): the hooks afterwards, and the number of groups removed
uninstall(st) ==
    LET kept == [e \in Events |-> SelectSeq(st.hooks[e], LAMBDA g : ~isOurs(g))]
    IN [hooks |-> kept,
        removed |-> Len(st.hooks["PreCompact"]) - Len(kept["PreCompact"])
                    + Len(st.hooks["SessionStart"]) - Len(kept["SessionStart"])
                    + Len(st.hooks["PreToolUse"]) - Len(kept["PreToolUse"])]

InitSettings ==
    /\ InitConn
    /\ InitHook
    /\ proc = [pc |-> "none"]
    /\ promptState = <<>>
    /\ prompts = [clock |-> 0, started |-> 0, of |-> <<>>]
    /\ config = DEFAULTS
    /\ memories = {}
    /\ fts = EmptyBag
    /\ nextId = 1
    /\ checkpoints = <<>>
    /\ sessions = {}
    /\ now = 0
    /\ \E dir \in InstallDirs,
          hooks \in [Events -> {<<>>} \cup {<<g>> : g \in UNION {[1..n -> UserCommands] : n \in 1..2}}] :
           /\ settings = [dir |-> dir, hooks |-> hooks]
           /\ last = [op |-> "open", ret |-> NoRet, S |-> hooks, added |-> {},
                      after |-> "open"]

\* ic install; last.S is the settings file it found
Install ==
    /\ \A e \in Events : Len(settings.hooks[e]) < MaxGroups
    /\ LET r == install(settings)
       IN /\ settings' = [settings EXCEPT !.hooks = r.hooks]
          /\ last' = [op |-> "install", ret |-> Cardinality(r.added), S |-> settings.hooks,
                      added |-> r.added, after |-> last.op]
    /\ UNCHANGED <<concVars, hookVars, proc, promptState, prompts, config,
                   memories, fts, nextId, checkpoints, sessions, now>>

\* ic uninstall
Uninstall ==
    /\ last.op # "uninstall"
    /\ LET r == uninstall(settings)
       IN /\ settings' = [settings EXCEPT !.hooks = r.hooks]
          /\ last' = [op |-> "uninstall", ret |-> r.removed, S |-> last.S,
                      added |-> last.added, after |-> last.op]
    /\ UNCHANGED <<concVars, hookVars, proc, promptState, prompts, config,
                   memories, fts, nextId, checkpoints, sessions, now>>

NextSettings ==
    \/ Install
    \/ Uninstall

SpecSettings == InitSettings /\ [][NextSettings]_vars

(* ------------------------------ ic prune ------------------------------- *)

\* countBelowScore: SELECT COUNT(*) FROM memories WHERE score < ?
countBelowScore(mem, threshold) == Cardinality({r \in mem : r.score < threshold})

\* Store.countOld(days): SELECT COUNT(*) ... WHERE created_at < datetime('now', -d days)
\*                       AND access_count = 0
countOld(mem, days, t) ==
    LET d == IF days = 0 THEN 30 ELSE Max(1, days)
    IN Cardinality({r \in mem : r.ca < t - d * DayTicks /\ r.ac = 0})

\* doPrune: older / below tell which flags are given; the result holds the
\* store afterwards and the numbers printed (NoRet: not printed)
doPrune(mem, dryRun, older, days, below, threshold, t) ==
    LET m1 == IF older /\ ~dryRun THEN pruneOld(mem, days, t) ELSE mem
        m2 == IF below /\ ~dryRun THEN pruneByScore(m1, threshold) ELSE m1
        m3 == IF ~older /\ ~below /\ ~dryRun THEN decayAndPrune(m2, t) ELSE m2
        mid == IF ~older /\ ~below /\ ~dryRun THEN decayScores(m2, t) ELSE m2
    IN [mem |-> m3, mid |-> mid,
        old |-> IF older /\ dryRun THEN countOld(mem, days, t) ELSE NoRet,
        low |-> IF dryRun /\ (below \/ ~older)
                THEN countBelowScore(mem, IF below THEN threshold ELSE pruneThreshold)
                ELSE NoRet,
        total |-> IF dryRun THEN NoRet
                  ELSE (Cardinality(mem) - Cardinality(m1)) + (Cardinality(m1) - Cardinality(m2))
                       + (Cardinality(mid) - Cardinality(m3))]

\* ic prune [--dry-run] [--older-than N] [--below-score X]
DoPrune ==
    \E dryRun \in BOOLEAN, older \in BOOLEAN, below \in BOOLEAN,
       days \in {0, 1}, threshold \in {pruneThreshold, 400} :
        /\ (~older => days = 0) /\ (~below => threshold = pruneThreshold)
        /\ \A r \in memories : r.dk < MaxDecay
        /\ LET r == doPrune(memories, dryRun, older, days, below, threshold, now)
           IN /\ memories' = r.mem
              /\ fts' = Triggers(Triggers(fts, memories, r.mid), r.mid, r.mem)
              /\ last' = [op |-> "prune", ret |-> r.total, dryRun |-> dryRun,
                          older |-> older, days |-> days, below |-> below,
                          threshold |-> threshold, old |-> r.old, low |-> r.low,
                          at |-> now]
        /\ UNCHANGED <<nonStore, nextId, checkpoints, sessions, now>>

NextCli ==
    \/ InsertMemory
    \/ DoPrune
    \/ Tick

SpecCli == InitStore /\ [][NextCli]_vars

(* ------------- the parser and the extractor as pure functions ---------- *)
(* A parsed message carries its line number, role, text ("" when it has    *)
(* none), tool calls and tool results; a tool result is named by a number. *)

\* the messages parseTranscript can produce at line i
MessagesAt(i) ==
    {[lineNum |-> i, role |-> "user", text |-> "hi", toolCalls |-> <<>>, toolResults |-> <<>>],
     [lineNum |-> i, role |-> "user", text |-> "", toolCalls |-> <<>>,
      toolResults |-> <<10 * i + 1, 10 * i + 2>>],
     [lineNum |-> i, role |-> "user", text |-> "hi", toolCalls |-> <<>>,
      toolResults |-> <<10 * i + 1>>],
     [lineNum |-> i, role |-> "user", text |-> "", toolCalls |-> <<>>, toolResults |-> <<>>],
     [lineNum |-> i, role |-> "assistant", text |-> "ok", toolCalls |-> <<10 * i + 3>>,
      toolResults |-> <<10 * i + 4>>],
     [lineNum |-> i, role |-> "tool", text |-> "", toolCalls |-> <<>>,
      toolResults |-> <<10 * i + 5>>]}

InitIdle ==
    /\ InitConn
    /\ InitHook
    /\ InitProc
    /\ memories = {}
    /\ fts = EmptyBag
    /\ nextId = 1
    /\ checkpoints = <<>>
    /\ sessions = {}
    /\ now = 0

InitTurns ==
    /\ InitIdle
    /\ \E n \in 0..MaxMsgs :
         \E msgs \in {q \in [1..n -> UNION {MessagesAt(i) : i \in 1..n}] :
                          \A i \in 1..n : q[i].lineNum = i} :
             last = [op |-> "input", ret |-> NoRet, msgs |-> msgs, turns |-> <<>>]

\* groupIntoTurns(messages)
GroupIntoTurns ==
    /\ last.op = "input"
    /\ last' = [last EXCEPT !.op = "groupIntoTurns", !.turns = groupIntoTurns(last.msgs)]
    /\ UNCHANGED <<nonStore, memories, fts, nextId, checkpoints, sessions, now>>

NextTurns == GroupIntoTurns

SpecTurns == InitTurns /\ [][NextTurns]_vars

\* the lines of a thinking block: the length of the trimmed line, and whether
\* it holds a word of the architecture vocabulary
ThinkingLines == {[len |-> n, arch |-> a] : n \in {29, 30, 400, 401}, a \in BOOLEAN}

\* extractArchitecture(thinking): the kept lines, by their index in the block
extractArchitecture(thinking) ==
    LET items == SelectSeq([i \in 1..Len(thinking) |-> i],
                           LAMBDA i : /\ ~(thinking[i].len < 30 \/ thinking[i].len > 400)
                                      /\ thinking[i].arch)
    IN SubSeq(items, 1, Min(Len(items), 3))

InitArch ==
    /\ InitIdle
    /\ \E n \in 0..MaxBlockLines :
         \E thinking \in [1..n -> ThinkingLines] :
             last = [op |-> "input", ret |-> NoRet, thinking |-> thinking, items |-> <<>>]

\* extractMemories on a turn whose one assistant message has this thinking block
ExtractArchitecture ==
    /\ last.op = "input"
    /\ last' = [last EXCEPT !.op = "extractArchitecture",
                            !.items = extractArchitecture(last.thinking)]
    /\ UNCHANGED <<nonStore, memories, fts, nextId, checkpoints, sessions, now>>

NextArch == ExtractArchitecture

SpecArch == InitArch /\ [][NextArch]_vars

(* ------------- user-prompt-submit and its rate-limit file -------------- *)
(* Each prompt starts a process.  It reads prompt-state.json as a whole,    *)
(* checks its key, and after a recall writes back the object it read with   *)
(* its own key set.  The clock counts minutes: a Date.now() is far from 0.  *)

RecallWindow == 1    \* 60000 ms, in minutes

\* the object of prompt-state.json when the file is missing or unreadable: {};
\* a key it does not hold reads as 0 (state[stateKey] || 0)
NoState == [k \in Sessions |-> 0]

\* const lastRecall = state[stateKey] || 0
lastRecall(state, stateKey) == state[stateKey]

InitPrompt ==
    /\ InitConn
    /\ InitHook
    /\ memories = {WornRow}
    /\ fts = SetToBag({WornRow.id})
    /\ nextId = 2
    /\ checkpoints = <<>>
    /\ sessions = {}
    /\ now = 0
    /\ last = [op |-> "open", ret |-> NoRet, recalls |-> {}]
    /\ proc = [pc |-> "none"]
    /\ settings = [dir |-> "none", hooks |-> <<>>]
    /\ config = DEFAULTS
    /\ promptState = NoState
    /\ prompts = [clock |-> RecallWindow, started |-> 0,
                  of |-> [p \in Procs |-> [pc |-> "done", key |-> "s1", state |-> NoState,
                                           now |-> 0, n |-> 0]]]

\* a prompt arrives: the input checks (a short or system-like prompt, fewer
\* than two keywords: return)
StartPrompt(p) ==
    /\ prompts.of[p].pc = "done"
    /\ prompts.started < MaxPrompts
    /\ \E sessionId \in Sessions, worth \in BOOLEAN :
          prompts' = [prompts EXCEPT
                         !.started = @ + 1,
                         !.of[p] = [pc |-> IF worth THEN "load" ELSE "done", key |-> sessionId,
                                    state |-> NoState, now |-> 0, n |-> prompts.started + 1]]
    /\ UNCHANGED <<storeVars, concVars, hookVars, proc, promptState, settings, config>>

\* loadState(), Date.now() and the rate-limit check
LoadState(p) ==
    /\ prompts.of[p].pc = "load"
    /\ prompts' = [prompts EXCEPT
                      !.of[p] = [@ EXCEPT
                          !.state = promptState, !.now = prompts.clock,
                          !.pc = IF prompts.clock - lastRecall(promptState, prompts.of[p].key)
                                       < RecallWindow
                                 THEN "done" ELSE "search"]]
    /\ UNCHANGED <<storeVars, concVars, hookVars, proc, promptState, settings, config>>

\* openDb, db.search: nothing found, return; else touchMemories(ids),
\* state[stateKey] = now, saveState(state), and the context is written
Recall(p) ==
    LET me == prompts.of[p]
    IN /\ me.pc = "search"
       /\ prompts' = [prompts EXCEPT !.of[p] = [@ EXCEPT !.pc = "done"]]
       /\ \E ids \in {<<>>} \cup {<<r.id>> : r \in {m \in memories : m.project = "pA"}} :
             IF ids = <<>>
             THEN UNCHANGED <<memories, fts, promptState, last>>
             ELSE /\ memories' = touchMemories(memories, ids, now)
                  /\ fts' = Triggers(fts, memories, memories')
                  /\ promptState' = [me.state EXCEPT ![me.key] = me.now]
                  /\ last' = [last EXCEPT !.op = "recall", !.recalls =
                                 @ \cup {[key |-> me.key, at |-> me.now, n |-> me.n]}]
       /\ UNCHANGED <<concVars, hookVars, proc, settings, config, nextId, checkpoints, sessions, now>>

\* a minute passes
Minute ==
    /\ prompts.clock < MaxClock
    /\ prompts' = [prompts EXCEPT !.clock = @ + 1]
    /\ UNCHANGED <<storeVars, concVars, hookVars, proc, promptState, settings, config>>

NextPrompt ==
    \/ \E p \in Procs : StartPrompt(p)
    \/ \E p \in Procs : LoadState(p)
    \/ \E p \in Procs : Recall(p)
    \/ Minute

SpecPrompt == InitPrompt /\ [][NextPrompt]_vars

(* --------------- user-prompt-submit: what a recall emits ---------------- *)
(* A search result is a row and the length of its one-line content.        *)

maxResults == 3            \* Math.min(cfg.maxPromptRecallResults, 3)
RecallHeaderChars == 25    \* '## Relevant prior context'
ContentChars == {10, 400, 900, 2200}

\* `- [${m.category}] ${m.content}` for a note
recallLineChars(len) == 9 + len

\* recallForPrompt: lines.join('\n'), as a length
recallTextChars(lens, n) ==
    LET RECURSIVE sum(_)
        sum(i) == IF i = 0 THEN RecallHeaderChars ELSE sum(i - 1) + 1 + recallLineChars(lens[i])
    IN sum(n)

\* the trimming loop: the number of memory lines in the text written
RECURSIVE trimLines(_, _)
trimLines(lens, i) ==
    IF i <= Len(lens) /\ estimateTokens(recallTextChars(lens, i - 1)) < 500
    THEN trimLines(lens, i + 1) ELSE i - 1

\* the number of memory lines the hook writes for these results
emittedLines(lens) ==
    IF estimateTokens(recallTextChars(lens, Len(lens))) > 600 THEN trimLines(lens, 1)
    ELSE Len(lens)

\* a store of maxResults untouched memories of project pA; db.search will
\* return the first n of them, with these content lengths
InitRecall ==
    /\ InitConn
    /\ InitHook
    /\ proc = [pc |-> "none"]
    /\ promptState = NoState
    /\ prompts = [clock |-> RecallWindow, started |-> 0, of |-> <<>>]
    /\ settings = [dir |-> "none", hooks |-> <<>>]
    /\ config = DEFAULTS
    /\ memories = {[WornRow EXCEPT !.id = i] : i \in 1..maxResults}
    /\ fts = SetToBag(RowIds(memories))
    /\ nextId = maxResults + 1
    /\ checkpoints = <<>>
    /\ sessions = {}
    /\ now = 0
    /\ \E n \in 0..maxResults :
         \E lens \in [1..n -> ContentChars] :
             last = [op |-> "search", ret |-> NoRet, lens |-> lens, emitted |-> {}]

\* the hook body from db.search on: recallForPrompt, the cap, touchMemories,
\* saveState, writeHookOutput
PromptRecall ==
    /\ last.op = "search"
    /\ LET ids == [i \in 1..Len(last.lens) |-> i]
       IN IF ids = <<>>
          THEN /\ last' = [last EXCEPT !.op = "recall"]
               /\ UNCHANGED <<memories, fts, promptState>>
          ELSE /\ memories' = touchMemories(memories, ids, now)
               /\ fts' = Triggers(fts, memories, memories')
               /\ promptState' = [promptState EXCEPT !["s1"] = prompts.clock]
               /\ last' = [last EXCEPT !.op = "recall",
                                       !.emitted = 1..emittedLines(last.lens)]
    /\ UNCHANGED <<concVars, hookVars, proc, prompts, settings, config,
                   nextId, checkpoints, sessions, now>>

NextRecall == PromptRecall

SpecRecall == InitRecall /\ [][NextRecall]_vars

(* ----------------- archive hook processes, step by step ---------------- *)
(* One hook process at a time works on the transcript of session s1; it    *)
(* may die between any two steps.  The host keeps writing the transcript.  *)

HookPath == "t1"

StartHook(r) ==
    /\ run.pc = "idle"
    /\ runs < MaxRuns
    /\ runs' = runs + 1
    /\ run' = r
    /\ UNCHANGED <<storeVars, concVars, procVars, transcript, unparsed, crash>>

\* pre-compact: input {session_id, transcript_path, cwd}
StartPreCompact ==
    StartHook([IdleRun EXCEPT !.hook = "pre-compact",
                              !.pc = PreCompactFlow("start", FALSE, 0, 0)])

\* subagent-stop: input {session_id, agent_id, agent_transcript_path, cwd}
StartSubagentStop ==
    \E agentId \in {Null, "a1"} :
        StartHook([IdleRun EXCEPT !.hook = "subagent-stop",
                                  !.key = agentSessionId("s1", agentId),
                                  !.pc = SubagentStopFlow("start", FALSE, 0, 0)])

\* session-end: input {session_id, transcript_path?, cwd}
StartSessionEnd ==
    \E path \in {HookPath, Null} :
        StartHook([IdleRun EXCEPT !.hook = "session-end",
                                  !.pc = SessionEndFlow(IF path # Null THEN "start"
                                                        ELSE "startNoPath", FALSE, 0, 0)])

HookStep(pc) == run.pc = pc

\* db.upsertSession(sessionId, project)
DoUpsertSession ==
    /\ HookStep("upsertSession")
    /\ sessions' = upsertSession(sessions, run.sid, run.project, now)
    /\ run' = Advance(run)
    /\ UNCHANGED <<memories, fts, nextId, checkpoints, now, last, concVars, procVars,
                   transcript, runs, unparsed, crash>>

\* const checkpoint = db.getCheckpoint(...); startLine = checkpoint ? ... : 0
DoGetCheckpoint ==
    /\ HookStep("getCheckpoint")
    /\ run' = Advance([run EXCEPT !.startLine = getCheckpoint(checkpoints, run.key, HookPath)])
    /\ UNCHANGED <<storeVars, concVars, procVars, transcript, runs, unparsed, crash>>

\* what a parse from startLine leaves in the run, and which step follows
Parsed(r, startLine) ==
    LET res == parseTranscript(transcript, startLine)
        rollback == r.pc = "parse" /\ Len(res.messages) = 0 /\ res.lastLine < startLine
        mems == extractMemories(groupIntoTurns(res.messages), r.project)
    IN [r EXCEPT !.startLine = startLine, !.msgs = res.messages, !.lastLine = res.lastLine,
                 !.mems = mems, !.didParse = TRUE, !.read = transcript,
                 !.pc = Flow(r.hook, r.pc, rollback, Len(res.messages), Len(mems))]

PositionsOf(msgs) == {msgs[i].pos : i \in 1..Len(msgs)}

\* parseTranscript(transcriptPath, startLine), the rollback test, and the
\* grouping and extraction of what was parsed
DoParse ==
    /\ HookStep("parse")
    /\ run' = [Parsed(run, run.startLine) EXCEPT
                 !.rolled = transcript.exists /\ NonBlank(transcript.lines) < run.startLine]
    /\ unparsed' = IF run.key = "s1" THEN unparsed \ PositionsOf(run'.msgs) ELSE unparsed
    /\ UNCHANGED <<storeVars, concVars, procVars, transcript, runs, crash>>

\* rollback detected: startLine = 0 and parseTranscript(transcriptPath, 0)
DoReparse ==
    /\ HookStep("reparse")
    /\ run' = Parsed(run, 0)
    /\ unparsed' = IF run.key = "s1" THEN unparsed \ PositionsOf(run'.msgs) ELSE unparsed
    /\ UNCHANGED <<storeVars, concVars, procVars, transcript, runs, crash>>

\* const inserted = db.insertMany(memories)
DoInsertMany ==
    /\ HookStep("insertMany")
    /\ LET r == insertMany([mem |-> memories, nid |-> nextId], run.mems, now)
       IN /\ memories' = r.mem
          /\ nextId' = r.nid
          /\ run' = Advance([run EXCEPT !.inserted = r.ret, !.didInsert = TRUE])
    /\ fts' = Triggers(fts, memories, memories')
    /\ UNCHANGED <<checkpoints, sessions, now, last, concVars, procVars,
                   transcript, runs, unparsed, crash>>

\* db.saveCheckpoint(sessionId, transcriptPath, lastLine), on both paths
DoSaveCheckpoint ==
    /\ run.pc \in {"saveCheckpoint", "saveAndReturn"}
    /\ checkpoints' = saveCheckpoint(checkpoints, run.key, HookPath, run.lastLine)
    /\ run' = Advance([run EXCEPT !.didSave = TRUE])
    /\ crash' = IF crash.key = run.key THEN NoCrash ELSE crash
    /\ UNCHANGED <<memories, fts, nextId, sessions, now, last, concVars, procVars,
                   transcript, runs, unparsed>>

\* db.incrSessionMemories(sessionId, inserted)
DoIncrSessionMemories ==
    /\ HookStep("incrSessionMemories")
    /\ sessions' = incrSessionMemories(sessions, run.sid, run.inserted)
    /\ run' = Advance(run)
    /\ UNCHANGED <<memories, fts, nextId, checkpoints, now, last, concVars, procVars,
                   transcript, runs, unparsed, crash>>

\* db.incrSessionCompactions(sessionId)
DoIncrSessionCompactions ==
    /\ HookStep("incrSessionCompactions")
    /\ sessions' = incrSessionCompactions(sessions, run.sid)
    /\ run' = Advance(run)
    /\ UNCHANGED <<memories, fts, nextId, checkpoints, now, last, concVars, procVars,
                   transcript, runs, unparsed, crash>>

\* db.decayAndPrune(), first statement
DoDecayScores ==
    /\ HookStep("decayScores")
    /\ memories' = decayScores(memories, now)
    /\ run' = Advance(run)
    /\ fts' = Triggers(fts, memories, memories')
    /\ UNCHANGED <<nextId, checkpoints, sessions, now, last, concVars, procVars,
                   transcript, runs, unparsed, crash>>

\* db.decayAndPrune(), second statement
DoPruneByScore ==
    /\ HookStep("pruneByScore")
    /\ memories' = pruneByScore(memories, pruneThreshold)
    /\ run' = Advance(run)
    /\ fts' = Triggers(fts, memories, memories')
    /\ UNCHANGED <<nextId, checkpoints, sessions, now, last, concVars, procVars,
                   transcript, runs, unparsed, crash>>

\* db.enforceProjectLimit(project)
DoEnforceProjectLimit ==
    /\ HookStep("enforceProjectLimit")
    /\ \E D \in LimitVictims(memories, run.project) : memories' = memories \ D
    /\ run' = Advance(run)
    /\ fts' = Triggers(fts, memories, memories')
    /\ UNCHANGED <<nextId, checkpoints, sessions, now, last, concVars, procVars,
                   transcript, runs, unparsed, crash>>

\* db.endSession(sessionId)
DoEndSession ==
    /\ HookStep("endSession")
    /\ sessions' = endSession(sessions, run.sid, now)
    /\ run' = Advance(run)
    /\ UNCHANGED <<memories, fts, nextId, checkpoints, now, last, concVars, procVars,
                   transcript, runs, unparsed, crash>>

\* finally { db.close() } and the process ends
Exit ==
    /\ HookStep("done")
    /\ run' = IdleRun
    /\ crash' = NoCrash
    /\ UNCHANGED <<storeVars, concVars, procVars, transcript, runs, unparsed>>

\* the process dies between two steps; crash remembers a death between the
\* insert and the checkpoint save until the next run ends or the file changes
Crash ==
    /\ run.pc \notin {"idle", "done"}
    /\ run' = IdleRun
    /\ crash' = IF run.didInsert /\ ~run.didSave
                THEN [key |-> run.key, read |-> run.read, startLine |-> run.startLine,
                      store |-> memories]
                ELSE NoCrash
    /\ UNCHANGED <<storeVars, concVars, procVars, transcript, runs, unparsed>>

\* positions of lines that a host write made new messages no run has parsed
Fresh(old, new) ==
    {i \in 1..Len(new) : IsMessage(new[i]) /\ (i > Len(old) \/ old[i] # new[i])}
Stale(old, new) ==
    {i \in 1..Len(old) : i > Len(new) \/ old[i] # new[i]}

\* The running hook sees the file only in its parse steps, so a host write
\* during any other step is the same as one just before or after the run.
HostWrite(new) ==
    /\ run.pc \in {"idle", "reparse"}
    /\ transcript' = [exists |-> TRUE, lines |-> new]
    /\ unparsed' = (unparsed \ Stale(transcript.lines, new))
                        \cup Fresh(transcript.lines, new)
    /\ crash' = NoCrash
    /\ UNCHANGED <<storeVars, concVars, procVars, run, runs>>

\* the host appends a line to the transcript
HostAppend ==
    \E l \in Lines :
        /\ Len(transcript.lines) < MaxLines
        /\ HostWrite(Append(transcript.lines, l))

\* the host cuts the transcript back to its first k lines (rollback)
HostTruncate ==
    \E k \in 0..(Len(transcript.lines) - 1) :
        HostWrite(SubSeq(transcript.lines, 1, k))

\* the host replaces a line of the transcript (message editing)
HostEdit ==
    \E i \in 1..Len(transcript.lines), l \in Lines :
        /\ l # transcript.lines[i]
        /\ HostWrite([transcript.lines EXCEPT ![i] = l])

NextHooks ==
    \/ StartPreCompact
    \/ StartSubagentStop
    \/ StartSessionEnd
    \/ DoUpsertSession
    \/ DoGetCheckpoint
    \/ DoParse
    \/ DoReparse
    \/ DoInsertMany
    \/ DoSaveCheckpoint
    \/ DoIncrSessionMemories
    \/ DoIncrSessionCompactions
    \/ DoDecayScores
    \/ DoPruneByScore
    \/ DoEnforceProjectLimit
    \/ DoEndSession
    \/ Exit
    \/ Crash
    \/ HostAppend
    \/ HostTruncate
    \/ HostEdit

SpecHooks == InitStore /\ [][NextHooks]_vars

\* the hooks of project pA on a store that already holds an idle memory of
\* project pB
OtherRow ==
    [id |-> 1, project |-> "pB", hash |-> Null, score |-> 52, ca |-> 0, la |-> 0,
     ac |-> 0, dk |-> 0]

InitIso ==
    /\ InitConn
    /\ InitHook
    /\ InitProc
    /\ memories = {OtherRow}
    /\ fts = SetToBag(RowIds(memories))
    /\ nextId = 2
    /\ checkpoints = <<>>
    /\ sessions = {}
    /\ now = MaxTime
    /\ last = [op |-> "open", ret |-> NoRet]

SpecIso == InitIso /\ [][NextHooks]_vars

\* the archive hooks running to their end, one after another, while the
\* host appends to the transcript
NextArchive ==
    \/ StartPreCompact
    \/ StartSubagentStop
    \/ StartSessionEnd
    \/ DoUpsertSession
    \/ DoGetCheckpoint
    \/ DoParse
    \/ DoReparse
    \/ DoInsertMany
    \/ DoSaveCheckpoint
    \/ DoIncrSessionMemories
    \/ DoIncrSessionCompactions
    \/ DoDecayScores
    \/ DoPruneByScore
    \/ DoEnforceProjectLimit
    \/ DoEndSession
    \/ Exit
    \/ HostAppend
    \/ HostTruncate

SpecArchive == InitStore /\ [][NextArchive]_vars

\* the archive hooks of project pA on a store in which project pB already
\* holds a memory with the source hash of the user-request note
InitShared ==
    /\ InitConn
    /\ InitHook
    /\ InitProc
    /\ memories = {[OtherRow EXCEPT !.hash = "h1", !.score = userNoteScore]}
    /\ fts = SetToBag(RowIds(memories))
    /\ nextId = 2
    /\ checkpoints = <<>>
    /\ sessions = {}
    /\ now = 0
    /\ last = [op |-> "open", ret |-> NoRet]

SpecShared == InitShared /\ [][NextArchive]_vars

(* ------------------- decay under a loaded configuration ---------------- *)

\* the fraction fields of config.json, as thousandths: in range, and 1.5
UserConfigs == [decayFactor : {950, 1000, 1500}, pruneThreshold : {50}, scoreFloor : {10, 60}]

\* loadConfig: a fraction field outside [0, 1] is replaced by its default
loadConfig(userConfig) ==
    [key \in DOMAIN DEFAULTS |->
        IF userConfig[key] < 0 \/ userConfig[key] > SCALE THEN DEFAULTS[key]
        ELSE userConfig[key]]

\* decayScores.run(cfg.scoreFloor, cfg.decayFactor, -days)
decayScoresWith(cfg, mem, t) ==
    {IF r.la < t - IntervalTicks
     THEN [r EXCEPT !.score = Max(cfg.scoreFloor, (@ * cfg.decayFactor) \div SCALE)]
     ELSE r : r \in mem}

InitDecay ==
    /\ InitConn
    /\ InitHook
    /\ proc = [pc |-> "none"]
    /\ promptState = <<>>
    /\ prompts = [clock |-> 0, started |-> 0, of |-> <<>>]
    /\ settings = [dir |-> "none", hooks |-> <<>>]
    /\ \E userConfig \in UserConfigs : config = loadConfig(userConfig)
    /\ memories = {}
    /\ fts = EmptyBag
    /\ nextId = 1
    /\ checkpoints = <<>>
    /\ sessions = {}
    /\ now = 0
    /\ last = [op |-> "open", ret |-> NoRet]

\* Store.decayAndPrune() with the loaded configuration
DecayAndPruneWith ==
    /\ LET decayed == decayScoresWith(config, memories, now)
       IN /\ memories' = pruneByScore(decayed, config.pruneThreshold)
          /\ fts' = Triggers(Triggers(fts, memories, decayed), decayed, memories')
          /\ last' = [op |-> "decayAndPrune",
                      ret |-> Cardinality(decayed) - Cardinality(memories')]
    /\ UNCHANGED <<nonStore, nextId, checkpoints, sessions, now>>

NextDecay ==
    \/ InsertMemory
    \/ DecayAndPruneWith
    \/ Tick

SpecDecay == InitDecay /\ [][NextDecay]_vars

\* decayAndPrune keeps being invoked (session-end runs it at the end of
\* every session)
SpecDecayLive == SpecDecay /\ WF_vars(DecayAndPruneWith)

(* ------------- archiving a transcript in one run and in two ------------ *)

\* one archive hook run over the file from the checkpoint startLine: the
\* source hashes of the memories it hands to insertMany, the checkpoint the
\* (session, path) has afterwards, and the positions of the lines it parsed
archiveRun(lines, startLine) ==
    LET file == [exists |-> TRUE, lines |-> lines]
        first == parseTranscript(file, startLine)
        res == IF Len(first.messages) = 0 /\ first.lastLine < startLine
               THEN parseTranscript(file, 0) ELSE first
        mems == extractMemories(groupIntoTurns(res.messages), "pA")
    IN [hashes |-> {mems[i].hash : i \in 1..Len(mems)},
        checkpoint |-> IF Len(res.messages) = 0 THEN startLine ELSE res.lastLine,
        parsed |-> PositionsOf(res.messages)]

\* a transcript, and the number k of its lines the host has written when
\* the first hook runs
InitSplit ==
    /\ InitIdle
    /\ \E n \in 0..MaxLines :
         \E lines \in [1..n -> Lines], k \in 0..n :
             last = [op |-> "input", ret |-> NoRet, lines |-> lines, k |-> k,
                     steps |-> {}, once |-> {}, checkpoint |-> 0, parsed |-> {}]

\* a hook run on the first k lines, then one on the complete file; the store
\* keeps one row per source hash
ArchiveInSteps ==
    /\ last.op = "input"
    /\ LET run1 == archiveRun(SubSeq(last.lines, 1, last.k), 0)
           run2 == archiveRun(last.lines, run1.checkpoint)
       IN last' = [last EXCEPT !.op = "steps", !.steps = run1.hashes \cup run2.hashes]
    /\ UNCHANGED <<nonStore, memories, fts, nextId, checkpoints, sessions, now>>

\* a single hook run over the complete file on a store without a checkpoint
ArchiveOnce ==
    /\ last.op = "steps"
    /\ last' = [last EXCEPT !.op = "both", !.once = archiveRun(last.lines, 0).hashes]
    /\ UNCHANGED <<nonStore, memories, fts, nextId, checkpoints, sessions, now>>

\* a hook run that reads the file while the host is writing line k: the line
\* is not yet valid JSON
ArchiveWhileWriting ==
    /\ last.op = "input"
    /\ last.k >= 1 /\ IsMessage(last.lines[last.k])
    /\ LET run1 == archiveRun(Append(SubSeq(last.lines, 1, last.k - 1), Junk), 0)
       IN last' = [last EXCEPT !.op = "writing", !.checkpoint = run1.checkpoint,
                               !.parsed = run1.parsed]
    /\ UNCHANGED <<nonStore, memories, fts, nextId, checkpoints, sessions, now>>

\* the next hook run, on the complete file
ArchiveAfterWriting ==
    /\ last.op = "writing"
    /\ LET run2 == archiveRun(last.lines, last.checkpoint)
       IN last' = [last EXCEPT !.op = "written", !.checkpoint = run2.checkpoint,
                               !.parsed = @ \cup run2.parsed]
    /\ UNCHANGED <<nonStore, memories, fts, nextId, checkpoints, sessions, now>>

NextSplit ==
    \/ ArchiveInSteps
    \/ ArchiveOnce
    \/ ArchiveWhileWriting
    \/ ArchiveAfterWriting

SpecSplit == InitSplit /\ [][NextSplit]_vars

(* ------------------------------ claims --------------------------------- *)

\* C1: through one store handle, no two memory rows ever carry the same
\* non-null source_hash.
C1_UniqueSourceHash ==
    \A r1, r2 \in memories :
        (r1.hash # Null /\ r1.hash = r2.hash) => r1.id = r2.id

\* an insertMemory was turned down as a duplicate while another row is stored too
C1_Witness ==
    /\ last.op = "insertMemory"
    /\ last.ret = NoId
    /\ Cardinality(memories) = 2
    /\ \E r \in memories : r.hash # Null

\* C9: an untouched row is decayed at most once per elapsed decay interval of
\* inactivity, however often decayAndPrune is called.
C9_DecayOncePerInterval ==
    \A r \in memories : r.dk <= (now - r.la) \div IntervalTicks

\* C10: at most one row per session_id; a session that was just upserted is
\* Active (ended_at null), also when it had ended before; endSession ends it.
C10_SessionStateMachine ==
    /\ \A sid \in Sessions : Cardinality(SessionRows(sessions, sid)) <= 1
    /\ last.op = "upsertSession" =>
           /\ SessionRows(sessions, last.sid) # {}
           /\ \A s \in SessionRows(sessions, last.sid) : s.ended = NoTime
    /\ last.op = "endSession" =>
           \A s \in SessionRows(sessions, last.sid) : s.ended # NoTime

\* C2: when two processes insert memories carrying the same source_hash over
\* their own connections, exactly one row with that hash exists once all of
\* them have finished.
C2_OneRowPerHash ==
    (Quiet /\ rounds >= 1) =>
        \A h \in Hashes :
            (\A p \in Procs : Inserts(p, h)) =>
                Cardinality({r \in memories : r.hash = h}) = 1

\* C8: decayAndPrune is atomic towards other connections: when the calls of a
\* round have finished, the store is what decayAndPrune and the other call
\* give in one of the two serial orders.
C8_DecayAndPruneAtomic ==
    (/\ Quiet /\ rounds >= 1
     /\ \A p \in Procs : ~conn[p].err
     /\ \E p \in Procs : conn[p].op = "decayAndPrune") =>
        \E p, q \in Procs : p # q /\ memories = Serial(p, q).mem

\* C3: a hook run that retries a run which died between inserting the
\* memories and saving the checkpoint, over the same transcript lines, inserts
\* zero new rows and leaves the stored memories as the insert of the first run
\* left them.
C3_RetryIdempotent ==
    (/\ run.pc = "saveCheckpoint" /\ run.didInsert
     /\ crash # NoCrash /\ crash.key = run.key
     /\ crash.read = run.read /\ crash.startLine = run.startLine) =>
        (run.inserted = 0 /\ memories = crash.store)

\* a retry of a run that died after its insert has done its own insertMany
C3_Witness ==
    /\ run.pc = "saveCheckpoint" /\ run.didInsert
    /\ crash # NoCrash /\ crash.key = run.key
    /\ crash.read = run.read /\ crash.startLine = run.startLine
    /\ Len(run.mems) > 0
    /\ memories # {}

\* C4: a hook run that finds the transcript with fewer non-blank lines than
\* its checkpoint re-parses from line 0, stores no source_hash twice and ends
\* with the effective checkpoint equal to the non-blank line count of the file.
C4_RollbackRecovery ==
    (run.pc = "done" /\ run.rolled /\ run.read = transcript) =>
        /\ run.startLine = 0
        /\ \A r1, r2 \in memories : r1.hash = r2.hash => r1.id = r2.id
        /\ getCheckpoint(checkpoints, run.key, HookPath) = NonBlank(transcript.lines)

\* C5: once a hook run of the session has parsed the transcript as it
\* stands and finished, every message the host wrote into it (appended or put
\* in place of an older line) has been parsed by some run.
C5_RewriteRecovery ==
    (run.pc = "done" /\ run.didParse /\ run.key = "s1" /\ run.read = transcript) =>
        unparsed = {}

\* C6: whenever a checkpoint row is saved, the run saving it has already
\* done the insert of the memories it extracted, and they are stored.
C6_InsertBeforeCheckpoint ==
    [][checkpoints' # checkpoints =>
          (Len(run.mems) > 0 =>
              /\ run.didInsert
              /\ \A i \in 1..Len(run.mems) : hashExists(memories, run.mems[i].hash))]_vars

\* a run that extracted memories has saved its checkpoint
C6_Witness ==
    /\ run.didSave
    /\ Len(run.mems) > 0
    /\ getCheckpoint(checkpoints, run.key, HookPath) = run.lastLine
    /\ run.lastLine > 0

\* C7: a hook run that parsed at least one new message from which no memory
\* was extracted ends with a checkpoint saved at the parser's lastLine.
C7_CheckpointWhenNothingExtracted ==
    (run.pc = "done" /\ Len(run.msgs) > 0 /\ Len(run.mems) = 0) =>
        (run.didSave /\ getCheckpoint(checkpoints, run.key, HookPath) = run.lastLine)

\* the source_hash values of a list of memories
HashesOf(items) == {items[i].hash : i \in 1..Len(items)}

\* C11 as stated: two insertMany calls with the same list insert in total at
\* most as many rows as the list has distinct source_hash values, and the
\* second call returns 0 when every memory carries a non-null source_hash.
C11_InsertManyTwice ==
    (last.op = "insertMany" /\ last.calls = 2) =>
        /\ last.first + last.ret <= Cardinality(HashesOf(last.items))
        /\ (\A h \in HashesOf(last.items) : h # Null) => last.ret = 0

\* C11 amended: when every memory of the list carries a non-empty
\* source_hash, the two calls insert in total at most as many rows as the list
\* has distinct source_hash values and the second call returns 0.
C11_InsertManyTwiceHashed ==
    (/\ last.op = "insertMany" /\ last.calls = 2
     /\ \A h \in HashesOf(last.items) : Truthy(h)) =>
        /\ last.first + last.ret <= Cardinality(HashesOf(last.items))
        /\ last.ret = 0

\* a list of hashed memories went in twice and its first call inserted rows
C11_Witness ==
    /\ last.op = "insertMany" /\ last.calls = 2
    /\ Len(last.items) = MaxBatch
    /\ \A h \in HashesOf(last.items) : Truthy(h)
    /\ last.first > 0

\* C12: in every store state the full-text index holds exactly one entry for
\* each live memory row and no entry for any other rowid.
C12_FtsLockstep ==
    /\ BagToSet(fts) = RowIds(memories)
    /\ \A id \in RowIds(memories) : CopiesIn(id, fts) = 1

\* a row was updated, another was deleted, and a later row is live
C12_Witness ==
    /\ last.op \in {"deleteMemory", "bulkDelete", "pruneOld", "enforceProjectLimit",
                    "pruneBelowScore", "decayAndPrune"}
    /\ last.ret > 0
    /\ \E r \in memories : r.ac > 0 \/ r.dk > 0
    /\ nextId > Cardinality(memories) + 1

C14_CheckpointPerPair ==
    \A sid \in Sessions, path \in Paths :
        getCheckpointRow(checkpoints, sid, path).line = last.latest[<<sid, path>>]

\* one session has checkpoints with different lines for two paths
C14_Witness ==
    \E i, j \in 1..Len(checkpoints) :
        /\ i < j
        /\ checkpoints[i].sid = checkpoints[j].sid
        /\ checkpoints[i].path # checkpoints[j].path
        /\ checkpoints[i].line # checkpoints[j].line

\* the rows of a project
RowsOf(mem, project) == {r \in mem : r.project = project}

\* C15: enforceProjectLimit(P) leaves P with min(n, maxMemoriesPerProject)
\* rows, n its count before; every row it deleted scored no higher than every
\* row of P it kept; it returns the number of rows it deleted.
C15_EnforceProjectLimit ==
    [][last'.op = "enforceProjectLimit" =>
          LET before == RowsOf(memories, last'.project)
              after == RowsOf(memories', last'.project)
          IN /\ after \subseteq before
             /\ Cardinality(after) = Min(Cardinality(before), maxMemoriesPerProject)
             /\ \A d \in before \ after, k \in after : d.score <= k.score
             /\ last'.ret = Cardinality(memories) - Cardinality(memories')]_vars

\* the cap removed a low-score row of a project and kept a higher one
C15_Witness ==
    /\ last.op = "enforceProjectLimit"
    /\ last.ret > 0
    /\ \E r \in RowsOf(memories, last.project) : r.score = userNoteScore
    /\ \E r \in memories : r.project # last.project

\* C16: a memory row leaves the store only in a step of one of the destroy
\* operations; inserts and touches never remove a row.
C16_OnlyDestroyOpsDelete ==
    [][RowIds(memories) \ RowIds(memories') # {} =>
          last'.op \in {"decayAndPrune", "pruneBelowScore", "pruneOld",
                        "enforceProjectLimit", "deleteMemory", "bulkDelete"}]_vars

\* an insertMany that inserted nothing ran on a full store whose rows had been touched
C16_Witness ==
    /\ last.op = "insertMany" /\ last.ret = 0
    /\ Cardinality(memories) = MaxId
    /\ \E r \in memories : r.ac > 0
    /\ \E r \in memories : r.hash # Null

\* C17: no step of a hook run for project A changes, touches or deletes a
\* memory whose project is not A.
C17_ProjectIsolation ==
    [][\A p \in Projects \ {run.project} : RowsOf(memories', p) = RowsOf(memories, p)]_vars

\* C18: the estimated token count of the text restoreContext returns, top
\* header, section headers and blank lines included, does not exceed the budget.
C18_TextWithinBudget ==
    last.op = "restoreContext" => estimateTokens(textLength(last.text)) <= last.budget

\* C19: the estimated token count of the returned text is at most the budget
\* plus the estimated cost of the last admitted memory line.
C19_TextWithinBudgetPlusLine ==
    last.op = "restoreContext" =>
        LET lastLine == IF last.ids = <<>> THEN 0
                        ELSE lineTokens(last.mems[last.ids[Len(last.ids)]])
        IN estimateTokens(textLength(last.text)) <= last.budget + lastLine

\* C20: ids are exactly the memories whose lines are in the text, each once,
\* in descending importance, and no memory left out ranks above an admitted one.
C20_IdsArePrefixOfRanking ==
    last.op = "restoreContext" =>
        LET inText == {i \in 1..Len(last.text) : last.text[i].kind = "memory"}
            admitted == {last.ids[i] : i \in 1..Len(last.ids)}
        IN /\ {last.text[i].id : i \in inText} = admitted
           /\ Cardinality(inText) = Len(last.ids)
           /\ Cardinality(admitted) = Len(last.ids)
           /\ \A i, j \in 1..Len(last.ids) :
                  i < j => computeImportance(last.mems[last.ids[i]])
                              >= computeImportance(last.mems[last.ids[j]])
           /\ \A a \in admitted, b \in (1..Len(last.mems)) \ admitted :
                  computeImportance(last.mems[a]) >= computeImportance(last.mems[b])

\* the budget admitted the higher-ranked of two memories and cut the other,
\* and the admitted one was not first in the input
C20_Witness ==
    /\ last.op = "restoreContext"
    /\ Len(last.mems) = 2
    /\ last.ids = <<2>>

C22_ResolveOnce ==
    [][/\ proc.pc # "none" /\ proc.resolves >= 1 =>
             proc'.resolves = 1 /\ proc'.value = proc.value
       /\ (proc.pc # "none" /\ proc.resolves = 0 /\ proc' # proc /\ proc'.data = proc.data) =>
             proc'.resolves = 1]_vars

\* the stream ended and failed as well, with the listeners still on
C22_Witness ==
    /\ proc.pc # "none"
    /\ proc.ended /\ proc.failed /\ proc.timer = "cleared"
    /\ proc.resolves = 1

\* C23: no store handle is open once the body of the hook is over, whether
\* it returned early, completed or threw, or the open itself failed in the
\* bootstrap.
C23_StoreClosed ==
    proc.pc \in {"wait", "drain", "exited"} => proc.db # "open"

\* a store operation threw after the open, and the handle is closed
C23_Witness ==
    /\ proc.pc = "wait"
    /\ proc.threw /\ proc.ops = MaxOps
    /\ proc.db = "closed"

\* C24: every hook process eventually ends, also when the host never closes
\* standard input, whether or not it wrote to standard output.
C24_EventuallyExits ==
    (proc.pc # "none") ~> (proc.pc = "exited")

\* C25: two recalls of one session are at least 60 seconds apart, however
\* the user-prompt-submit processes of this and of other sessions interleave.
C25_OneRecallPerWindow ==
    \A a, b \in last.recalls :
        (a # b /\ a.key = b.key) =>
            (a.at - b.at >= RecallWindow \/ b.at - a.at >= RecallWindow)

\* C26: with WAL and the busy timeout, a write call surfaces a busy error
\* only when it waited for another connection's write lock past the timeout;
\* when every writer releases the lock in time no call fails.
C26_NoBusyError ==
    [][\A p \in Procs :
          (conn'[p].err /\ ~conn[p].err) => (Waiting(p) /\ writer \notin {p, NoProc})]_vars

\* C27: subagent-start fetches, and so emits and touches, at most
\* floor(maxMemoriesPerRestore * 0.6) memories, for every valid
\* maxMemoriesPerRestore (an integer >= 1).
C27_SubagentFetchLimit ==
    last.op = "subagent-start" =>
        /\ last.fetched <= last.cap
        /\ Len(last.ids) <= last.cap

\* C28 as stated: a session-start whose source is none of compact, clear,
\* resume, startup - an absent source too - writes nothing to the store and
\* emits nothing.
C28_RecognizedSourceOnly ==
    [][(last'.op = "session-start" /\ last' # last
        /\ last'.source \notin {"compact", "clear", "resume", "startup"}) =>
          (sessions' = sessions /\ memories' = memories /\ last'.ids = <<>>)]_vars

\* C28 amended: a session-start whose source is present and none of compact,
\* clear, resume, startup writes nothing to the store and emits nothing.
C28_PresentSourceOnly ==
    [][(last'.op = "session-start" /\ last' # last /\ Truthy(last'.source)
        /\ last'.source \notin {"compact", "clear", "resume", "startup"}) =>
          (sessions' = sessions /\ memories' = memories /\ last'.ids = <<>>)]_vars

\* a session-start with source = user ran for a project that has a memory
\* and no session row yet
C28_Witness ==
    /\ last.op = "session-start"
    /\ last.source = "user"
    /\ \E r \in memories : r.project = last.cwd
    /\ sessions = {}

\* a user message opens a turn unless it has no text, has tool results and
\* a user message came before it
OpensTurn(msgs, i) ==
    /\ msgs[i].role = "user"
    /\ \/ msgs[i].text # ""
       \/ msgs[i].toolResults = <<>>
       \/ \A j \in 1..(i - 1) : msgs[j].role # "user"

\* index of the turn that is open after message i
TurnOf(msgs, i) == Cardinality({j \in 1..i : OpensTurn(msgs, j)})

\* the tool results of the messages from i on that join turn k: those of its
\* assistant messages and of the user messages that open no turn
RECURSIVE ResultsOfTurn(_, _, _)
ResultsOfTurn(msgs, k, i) ==
    IF i > Len(msgs) THEN <<>>
    ELSE (IF /\ TurnOf(msgs, i) = k
             /\ \/ msgs[i].role = "assistant"
                \/ msgs[i].role = "user" /\ ~OpensTurn(msgs, i)
          THEN msgs[i].toolResults ELSE <<>>)
         \o ResultsOfTurn(msgs, k, i + 1)

\* C29: a user message with empty text and at least one tool result that
\* arrives while a turn is open opens no turn, and its tool results are
\* appended, in order, to the open turn's allToolResults; every other user
\* message closes the open turn and opens a new one.
C29_ToolResultsFolded ==
    last.op = "groupIntoTurns" =>
        LET msgs == last.msgs
            turns == last.turns
            openers == {i \in 1..Len(msgs) : OpensTurn(msgs, i)}
        IN /\ Len(turns) = Cardinality(openers)
           /\ \A i \in openers : turns[TurnOf(msgs, i)].userMessage = msgs[i]
           /\ \A i \in 1..Len(msgs) :
                (msgs[i].role = "user" /\ ~OpensTurn(msgs, i)) =>
                    LET t == turns[TurnOf(msgs, i)]
                    IN /\ t.userMessage # msgs[i]
                       /\ t.endLine >= msgs[i].lineNum
           /\ \A k \in 1..Len(turns) : turns[k].allToolResults = ResultsOfTurn(msgs, k, 1)

\* a tool-result-only user message was folded into a turn that an assistant
\* message with a tool result had already joined
C29_Witness ==
    /\ last.op = "groupIntoTurns"
    /\ Len(last.msgs) = 3
    /\ last.msgs[1].role = "user"
    /\ last.msgs[2].role = "assistant"
    /\ last.msgs[3].role = "user" /\ ~OpensTurn(last.msgs, 3)
    /\ Len(last.turns) = 1
    /\ last.turns[1].allToolResults = <<24, 31, 32>>

\* C30: at most 2 architecture memories come from one thinking block.
C30_AtMostTwoArchitecture ==
    last.op = "extractArchitecture" => Len(last.items) <= 2

\* C31: a prune run that follows a dry run with the same flags (one of
\* --older-than N, --below-score X, or no flag) on the same store at the
\* same time deletes as many memories as the dry run reported.
C31_DryRunIsFaithful ==
    [][(/\ last.op = "prune" /\ last.dryRun /\ last.at = now
        /\ last'.op = "prune" /\ ~last'.dryRun
        /\ last'.older = last.older /\ last'.days = last.days
        /\ last'.below = last.below /\ last'.threshold = last.threshold
        /\ ~(last.older /\ last.below)) =>
          last'.ret = (IF last.older THEN last.old ELSE last.low)]_vars

\* the commands registered under an event
CommandsOf(hooks, e) ==
    {hooks[e][i][j] : <<i, j>> \in {p \in (1..Len(hooks[e])) \X (1..2) : p[2] <= Len(hooks[e][p[1]])}}

\* C32: after install followed by uninstall, every hook command of the
\* settings file that install found is still registered under its event, and
\* no command that install added remains.
C32_UninstallRemovesOnlyOurs ==
    (last.op = "uninstall" /\ last.after = "install") =>
        /\ \A e \in Events : CommandsOf(last.S, e) \subseteq CommandsOf(settings.hooks, e)
        /\ \A e \in last.added :
             getHookCommand(settings.dir, e) \notin CommandsOf(settings.hooks, e)

\* C33: archiving the first k lines and then the complete transcript stores
\* the same source hashes as one archive run over the complete transcript.
C33_IncrementalEqualsOnePass ==
    last.op = "both" => last.steps = last.once

\* C34: a line that was incomplete when an archive hook read the file is
\* parsed by the next archive hook run, once the host has completed it.
C34_IncompleteLineParsedLater ==
    last.op = "written" => last.k \in last.parsed

\* C35: a decayAndPrune call leaves no row with a higher score than the row
\* had before the call, under every configuration loadConfig returns.
C35_DecayNeverRaises ==
    [][last'.op = "decayAndPrune" =>
          \A r2 \in memories' : \A r1 \in memories : r1.id = r2.id => r2.score <= r1.score]_vars

\* C36: when decayFactor < 1, a memory that is idle past the decay interval
\* (nothing touches it in this specification) is eventually deleted.
C36_IdleEventuallyPruned ==
    \A id \in Ids :
        (config.decayFactor < SCALE
           /\ \E r \in memories : r.id = id /\ r.la < now - IntervalTicks)
        ~> (\A r \in memories : r.id # id)

\* C37: when an archive hook has run to its end for project P, P holds at
\* most maxMemoriesPerProject memories.
C37_CapAfterArchiveHook ==
    (run.pc = "done" /\ run.didInsert) =>
        Cardinality({r \in memories : r.project = run.project}) <= maxMemoriesPerProject

\* C38: between hook runs, the memories_created counter of the session
\* equals the number of rows the archive hooks of that session_id have
\* inserted (every row of this store was inserted by one of them, so the
\* AUTOINCREMENT sequence counts them).
C38_MemoriesCreatedCounts ==
    run.pc = "idle" => \A s \in sessions : s.sid = run.sid => s.created = nextId - 1

\* C39: user-prompt-submit touches a memory if and only if the memory's line
\* is in the context it writes; a memory whose line the cap cut off is not
\* touched.
C39_TouchedIffEmitted ==
    last.op = "recall" => \A r \in memories : (r.ac > WornRow.ac) <=> (r.id \in last.emitted)

\* C40: right after an archive hook has inserted the memories it extracted
\* for its project, every one of them is among the memories stored for that
\* project.
C40_ExtractedArePresent ==
    [][(run'.didInsert /\ ~run.didInsert) =>
          \A i \in 1..Len(run'.mems) :
              \E r \in memories' : r.project = run'.project /\ r.hash = run'.mems[i].hash]_vars

====
